---- MODULE Spec2Model ----
(***************************************************************************)
(* A model of the claude_amnesia context-injector hook (ctx.py) and of its *)
(* installer (setup.py).                                                   *)
(*                                                                         *)
(* The specifications of the module:                                       *)
(*   Spec         whole invocations of main() (the hook dispatcher, the    *)
(*                three handlers and the self-updater) over the files the  *)
(*                hook keeps between invocations;                          *)
(*   SpecCache    the decision-cache methods of one ContextInjector;       *)
(*   SpecCatalog  its catalog-snapshot method over a changing plugin tree; *)
(*   SpecEngine   its decision engine and run() over a growing history;    *)
(*   SpecConfig   the settings loader on a configuration file;             *)
(*   SpecExcerpt  the excerpt extractor on one plugin file;                *)
(*   SpecKey      the cache key of one message and history;                *)
(*   SpecHistory  the two history extractors on one history log;           *)
(*   SpecBuild    the catalog builder over the configured directories;     *)
(*   SpecRace     two hook processes on the same snapshot file;            *)
(*   SpecSetup    runs of the hook installer on one settings file.         *)
(* Those about the injector call the methods of an injector whose          *)
(* attributes are the ones __init__ assigns, one call after the other.     *)
(*                                                                         *)
(* A Python call is modelled by an operator returning a record whose exc   *)
(* field is "none" when the call returns and the exception's class name    *)
(* when it raises.  The log files are append-only and their content is     *)
(* never read: the model keeps whether each exists, and records the kinds  *)
(* of line one run appends with the run.  Appending to a log is taken to   *)
(* succeed.  Text is a sequence of tokens.                                 *)
(***************************************************************************)
EXTENDS Integers, Sequences, FiniteSets, TLC

VARIABLES
    now,              \* time.time(), in seconds
    ticks,            \* how many times the clock has advanced
    marker,           \* mtime of cache/last_version_check.txt, NoFile if absent
    scriptFile,       \* content of the running script file ctx.py
    tmpFile,          \* content of its sibling ctx.tmp, "absent" if none
    errorLog,         \* whether ~/.amnesia/error.log exists
    updateLog,        \* whether cache/context_injector.log exists
    traceLog,         \* whether ~/.amnesia/trace.log exists
    inv,              \* the last run of main(): its inputs and what it did
    cfg,              \* the injector's Config object
    pluginFiles,      \* the *.md files under the configured plugin directories
    catalogFile,      \* the catalog snapshot: [exists, mtime, content]
    decisions,        \* cache/decisions/<key>.json: key -> [exists, mtime, plugins]
    historyLog,       \* ~/.claude/history.jsonl: its lines
    call,             \* the last injector method called: its arguments and result
    configFile,       \* ~/.amnesia/config.yaml: what reading and parsing it gives
    settingsFile      \* ~/.claude/settings.json: what reading and parsing it gives

vars == << now, ticks, marker, scriptFile, tmpFile, errorLog, updateLog,
           traceLog, inv, cfg, pluginFiles, catalogFile, decisions, historyLog,
           call, configFile,
           settingsFile >>

----------------------------------------------------------------------------
(* Bounds of the model *)

MaxTicks == 3        \* clock advances per behaviour
MaxRespLen == 3      \* tokens in a completion-endpoint response
MaxHistory == 1      \* lines in the history log
MaxLines == 4        \* lines in a plugin file drawn from LineSamples
MaxSegments == 2     \* directories between the plugin root and a plugin file
MaxKeyHistory == 4   \* messages in the history a cache key is computed from

(* Program constants *)

AUTO_UPDATE_INTERVAL == 86400
DEFAULT_REBUILD_INTERVAL == 86400
DEFAULT_EXCERPT_TOKENS == 300
EXCERPT_MAX_LINES == 50

VERSION == << "0", ".", "1", ".", "0" >>

NoFile == 0 - 1
Absent == "<absent>"

\* The clock advances by one second or by one second less than a day.
TickSteps == { 1, AUTO_UPDATE_INTERVAL - 1 }

----------------------------------------------------------------------------
(* Self-updater *)

RECURSIVE lstrip_v(_)
\* str.lstrip("v"): drop every leading "v"
lstrip_v(s) ==
    IF s = << >> THEN s
    ELSE IF Head(s) = "v" THEN lstrip_v(Tail(s))
    ELSE s

NEWER == << "0", ".", "2", ".", "0" >>

Tags == { << >>, << "v" >>, VERSION, << "v" >> \o VERSION, NEWER, << "v" >> \o NEWER }

\* What the release endpoint (REPO_URL) answers.
\*   neterr     urlopen raises (timeout, DNS, HTTP error)
\*   baddecode  the body is not UTF-8 or not JSON
\*   nonobject  the body is JSON but not an object
\*   notag      an object without tag_name
\*   nulltag    an object whose tag_name is null
\*   tag        an object whose tag_name is the string .tag
ReleaseOutcomes ==
    { [kind |-> k, tag |-> << >>] :
        k \in { "neterr", "baddecode", "nonobject", "notag", "nulltag" } }
    \cup { [kind |-> "tag", tag |-> t] : t \in Tags }

\* Whether auto_update goes on to download after this release answer.
has_version(rel) == rel.kind = "tag" /\ lstrip_v(rel.tag) # << >>

\* What the network and the file system do during one update attempt: the
\* release answer, and the step after it that fails, if any.
\*   download       urlopen(RAW_FILE_URL) or response.read() raises
\*   write_open     temp_file.write_bytes raises before creating the file
\*   write_partial  temp_file.write_bytes raises after creating the file
\*   chmod          current_file_path.stat() or temp_file.chmod raises
\*   replace        os.replace raises
UpdateOutcomes ==
    { o \in [ release : ReleaseOutcomes,
              fail_at : { "none", "download", "write_open", "write_partial",
                          "chmod", "replace" } ] :
        has_version(o.release) \/ o.fail_at = "none" }

\* The except clause of auto_update (lines 493-498): log, then read temp_file.
\* temp_file is a local assigned on line 481 only; reading it before that
\* raises UnboundLocalError out of the handler.
auto_update_except(temp_file_bound, fs, calls, logged) ==
    IF ~temp_file_bound
    THEN [ exc |-> "UnboundLocalError", ret |-> FALSE, fs |-> fs,
           calls |-> calls, logged |-> logged \cup { "Update failed" } ]
    ELSE [ exc |-> "none", ret |-> FALSE,
           fs |-> [fs EXCEPT !.tmp = "absent"],   \* unlink if it exists
           calls |-> calls, logged |-> logged \cup { "Update failed" } ]

\* auto_update(current_version, current_file_path, logger), lines 453-498.
\* fs = [script, tmp] are the contents of current_file_path and of its .tmp
\* sibling; calls lists the URLs requested.
auto_update(current_version, fs, net) ==
    LET rel == net.release
        latest_version == IF rel.kind = "tag" THEN lstrip_v(rel.tag) ELSE << >>
        available ==
            IF latest_version # << >> /\ latest_version # current_version
            THEN { "Update available" } ELSE { }
        downloading == available \cup { "Downloading" }
    IN
    IF rel.kind \in { "neterr", "baddecode", "nonobject", "nulltag" }
    THEN auto_update_except(FALSE, fs, << "REPO_URL" >>, { })
    ELSE IF latest_version = << >>
    THEN [ exc |-> "none", ret |-> FALSE, fs |-> fs,
           calls |-> << "REPO_URL" >>, logged |-> { } ]
    ELSE IF net.fail_at = "download"
    THEN auto_update_except(FALSE, fs, << "REPO_URL", "RAW_FILE_URL" >>, downloading)
    ELSE IF net.fail_at \in { "write_open", "write_partial" }
    THEN auto_update_except(TRUE,
            [fs EXCEPT !.tmp = IF net.fail_at = "write_partial" THEN "partial" ELSE @],
            << "REPO_URL", "RAW_FILE_URL" >>, downloading)
    ELSE IF net.fail_at \in { "chmod", "replace" }
    THEN auto_update_except(TRUE, [fs EXCEPT !.tmp = "downloaded"],
            << "REPO_URL", "RAW_FILE_URL" >>, downloading)
    ELSE [ exc |-> "none", ret |-> TRUE,
           fs |-> [script |-> "downloaded", tmp |-> "absent"],
           calls |-> << "REPO_URL", "RAW_FILE_URL" >>,
           logged |-> downloading \cup { "Updated" } ]

\* The due test had line 511 compared with <= instead of <.
should_check_le(t, m) ==
    ~(m # NoFile /\ t - m <= AUTO_UPDATE_INTERVAL)

\* The due test of handle_session_start, lines 507-512.
should_check(t, m) ==
    ~(m # NoFile /\ t - m < AUTO_UPDATE_INTERVAL)

\* handle_session_start(user_input), lines 500-529.
handle_session_start(t, m, fs, net) ==
    IF ~should_check(t, m)
    THEN [ exc |-> "none", output |-> << >>, marker |-> m, fs |-> fs,
           calls |-> << >>, logged |-> { }, attempted |-> FALSE, updated |-> FALSE ]
    ELSE LET after(u) ==
                 IF u.exc # "none"
                 THEN [ exc |-> u.exc, output |-> << >>, marker |-> m, fs |-> u.fs,
                        calls |-> u.calls, logged |-> u.logged, attempted |-> TRUE,
                        updated |-> FALSE ]
                 ELSE [ exc |-> "none",
                        output |-> IF u.ret
                                   THEN << [kind |-> "notice", payload |-> << >>] >>
                                   ELSE << >>,
                        marker |-> t,                \* last_check_file.write_text
                        fs |-> u.fs, calls |-> u.calls, logged |-> u.logged,
                        attempted |-> TRUE, updated |-> u.ret ]
         IN after(auto_update(VERSION, fs, net))

----------------------------------------------------------------------------
(* Text *)

\* The sequences of at most n elements of S.
RECURSIVE SeqsUpTo(_, _)
SeqsUpTo(S, n) ==
    IF n = 0 THEN { << >> }
    ELSE LET shorter == SeqsUpTo(S, n - 1) IN
         shorter \cup { Append(q, x) : q \in shorter, x \in S }

Whitespace == { " " }

RECURSIVE lstrip(_)
lstrip(s) ==
    IF s # << >> /\ Head(s) \in Whitespace THEN lstrip(Tail(s)) ELSE s

RECURSIVE rstrip(_)
rstrip(s) ==
    IF s # << >> /\ s[Len(s)] \in Whitespace
    THEN rstrip(SubSeq(s, 1, Len(s) - 1)) ELSE s

\* str.strip()
strip(s) == rstrip(lstrip(s))

----------------------------------------------------------------------------
(* Settings *)

\* Config with every section at its default (lines 43-92), except the three
\* fields a configuration file sets here.  CacheConfig declares enabled and
\* directory and nothing else.
Config(cache_enabled, rebuild_interval, debug_enabled) ==
    [ history  |-> [ window_size |-> 5, max_tokens_per_message |-> 500,
                     pattern_analysis_window |-> 100 ],
      plugins  |-> [ max_selected |-> 3, excerpt_tokens |-> DEFAULT_EXCERPT_TOKENS ],
      cache    |-> [ enabled |-> cache_enabled, directory |-> "cache" ],
      catalog  |-> [ rebuild_interval_seconds |-> rebuild_interval,
                     file_path |-> "cache/plugin_catalog.json" ],
      debug    |-> [ enabled |-> debug_enabled, log_file |-> "trace.log" ] ]

DefaultConfig == Config(FALSE, DEFAULT_REBUILD_INTERVAL, TRUE)

Configs ==
    { Config(e, r, d) : e \in BOOLEAN, r \in { 1, DEFAULT_REBUILD_INTERVAL },
                        d \in BOOLEAN }

\* What opening and parsing the configuration file gives.
\*   absent      open raises FileNotFoundError
\*   unreadable  open raises PermissionError
\*   badyaml     yaml.safe_load raises YAMLError
\*   empty       safe_load returns None, which model_validate rejects
\*   nonmapping  safe_load returns a list or a scalar, rejected likewise
\*   badtype     a mapping with a value of the wrong type, rejected likewise
\*   mapping     a mapping that validates, with the three settings given
ConfigFiles ==
    { [ kind |-> k, cache_enabled |-> FALSE,
        rebuild_interval |-> DEFAULT_REBUILD_INTERVAL, debug_enabled |-> TRUE ] :
        k \in { "absent", "unreadable", "badyaml", "empty", "nonmapping", "badtype" } }
    \cup { [ kind |-> "mapping", cache_enabled |-> e, rebuild_interval |-> r,
             debug_enabled |-> d ] :
             e \in BOOLEAN, r \in { 1, DEFAULT_REBUILD_INTERVAL }, d \in BOOLEAN }

NoConfigFile == CHOOSE f \in ConfigFiles : f.kind = "absent"

\* from_yaml had its except clause named the I/O and YAML errors only.
from_yaml_except_narrow(raised) ==
    IF raised \in { "FileNotFoundError", "PermissionError", "YAMLError" }
    THEN [ exc |-> "none", ret |-> DefaultConfig ]
    ELSE [ exc |-> raised, ret |-> DefaultConfig ]

\* The except clause of from_yaml, lines 100-101.
from_yaml_except(raised) == [ exc |-> "none", ret |-> DefaultConfig ]

\* Config.from_yaml(path), lines 94-101.
from_yaml(file) ==
    LET raised ==
            IF file.kind = "absent" THEN "FileNotFoundError"
            ELSE IF file.kind = "unreadable" THEN "PermissionError"
            ELSE IF file.kind = "badyaml" THEN "YAMLError"
            ELSE IF file.kind \in { "empty", "nonmapping", "badtype" }
            THEN "ValidationError"
            ELSE "none"
    IN IF raised # "none" THEN from_yaml_except(raised)
       ELSE [ exc |-> "none",
              ret |-> Config(file.cache_enabled, file.rebuild_interval,
                             file.debug_enabled) ]

\* self._log(message), lines 119-124, for each of the messages kinds: append
\* to the trace log when debugging is enabled, creating the file.
log(c, trace, kinds) == trace \/ (c.debug.enabled /\ kinds # { })

----------------------------------------------------------------------------
(* Catalog builder *)

\* File text is a sequence of lines, as content.split("\n") gives them, and a
\* line is a sequence of characters.
Dashes == << "-", "-", "-" >>
NameKey == << "n", "a", "m", "e" >>
DescriptionKey == << "d", "e", "s", "c", "r", "i", "p", "t", "i", "o", "n" >>
NameLine == NameKey \o << ":", " ", "v" >>      \* name: v
TextLine == << " ", "x" >>
BlankLine == << >>

\* The *.md files the configured directories may hold, in the order rglob
\* yields them.
AllPluginFiles ==
    << [ name |-> "a.md", stem |-> << "a" >>,
         parts |-> << "plugins", "agents", "a.md" >>, readable |-> TRUE,
         content |-> << Dashes, NameLine, Dashes, TextLine >> ],
       [ name |-> "b.md", stem |-> << "b" >>,
         parts |-> << "plugins", "misc", "b.md" >>, readable |-> TRUE,
         content |-> << TextLine, BlankLine >> ],
       [ name |-> "c.md", stem |-> << "c" >>,
         parts |-> << "plugins", "tools", "c.md" >>, readable |-> FALSE,
         content |-> << TextLine >> ],
       [ name |-> "README.md", stem |-> << "R", "E", "A", "D", "M", "E" >>,
         parts |-> << "plugins", "README.md" >>, readable |-> TRUE,
         content |-> << TextLine >> ],
       [ name |-> "d.md", stem |-> << "d" >>,
         parts |-> << "plugins", "commands", "d.md" >>, readable |-> TRUE,
         content |-> << TextLine >> ] >>

Denylist == { "README.md", "CHANGELOG.md", "LICENSE.md" }

InParts(marker_name, parts) == \E i \in 1..Len(parts) : parts[i] = marker_name

\* The category of _extract_plugin_excerpt, lines 165-174: four independent
\* tests, each overwriting the result of the ones before it.
plugin_type(parts) ==
    LET t0 == "unknown"
        t1 == IF InParts("commands", parts) THEN "command" ELSE t0
        t2 == IF InParts("agents", parts) THEN "agent" ELSE t1
        t3 == IF InParts("workflows", parts) THEN "workflow" ELSE t2
        t4 == IF InParts("tools", parts) THEN "tool" ELSE t3
    IN t4

RECURSIVE frontmatter_end(_, _)
\* The while loop of lines 135-136; end_idx counts from 0 as in the code.
frontmatter_end(lines, end_idx) ==
    IF end_idx < Len(lines) /\ strip(lines[end_idx + 1]) # Dashes
    THEN frontmatter_end(lines, end_idx + 1)
    ELSE end_idx

\* ":" in line
has_colon(line) == \E i \in 1..Len(line) : line[i] = ":"

\* line.split(":", 1), stripped: the key and the value (lines 140-141)
colon_at(line) == CHOOSE i \in 1..Len(line) :
                    line[i] = ":" /\ \A j \in 1..(i - 1) : line[j] # ":"
split_key(line) == strip(SubSeq(line, 1, colon_at(line) - 1))
split_val(line) == strip(SubSeq(line, colon_at(line) + 1, Len(line)))

\* A dict as a function from its keys; {} has no keys.
EmptyDict == [ k \in { } |-> << >> ]
dict_set(d, key, val) ==
    [ k \in DOMAIN d \cup { key } |-> IF k = key THEN val ELSE d[k] ]
dict_get(d, key, default) == IF key \in DOMAIN d THEN d[key] ELSE default

RECURSIVE parse_frontmatter(_, _)
\* The for loop of lines 138-141 over frontmatter_lines.
parse_frontmatter(frontmatter_lines, frontmatter) ==
    IF frontmatter_lines = << >> THEN frontmatter
    ELSE LET line == Head(frontmatter_lines) IN
         parse_frontmatter(Tail(frontmatter_lines),
            IF has_colon(line)
            THEN dict_set(frontmatter, split_key(line), split_val(line))
            ELSE frontmatter)

RECURSIVE excerpt_loop(_, _, _)
\* The for loop of lines 148-161: the excerpt lines collected from lines on,
\* with char_count characters collected so far.
excerpt_loop(lines, char_count, max_chars) ==
    IF lines = << >> THEN << >>
    ELSE LET line == strip(Head(lines)) IN
         IF line = << >> THEN excerpt_loop(Tail(lines), char_count, max_chars)
         ELSE IF char_count + Len(line) > max_chars THEN << line >>     \* break
         ELSE << line >> \o excerpt_loop(Tail(lines), char_count + Len(line),
                                         max_chars)

RECURSIVE py_join(_)
\* "\n".join(lines)
py_join(lines) ==
    IF lines = << >> THEN << >>
    ELSE IF Len(lines) = 1 THEN lines[1]
    ELSE lines[1] \o << "\n" >> \o py_join(Tail(lines))

\* s[:n] for n >= 0
py_prefix(s, n) == SubSeq(s, 1, IF Len(s) < n THEN Len(s) ELSE n)

\* The excerpt had line 178 returned it whole instead of excerpt[:max_chars].
excerpt_of_unsliced(lines, max_tokens) ==
    py_join(py_prefix(excerpt_loop(lines, 0, max_tokens * 4), EXCERPT_MAX_LINES))

\* The excerpt of the body lines, lines 144-163 and 178.
excerpt_of(lines, max_tokens) ==
    LET max_chars == max_tokens * 4
        excerpt_lines == excerpt_loop(lines, 0, max_chars)
        excerpt == py_join(py_prefix(excerpt_lines, EXCERPT_MAX_LINES))
    IN py_prefix(excerpt, max_chars)

\* _extract_plugin_excerpt had its except clause (lines 182-184) returned an
\* entry without excerpt instead of None.
extract_plugin_excerpt_kept(f, max_tokens) ==
    IF ~f.readable
    THEN [ isNone |-> FALSE, frontmatter |-> EmptyDict,
           entry |-> [ name |-> f.stem, description |-> << >>,
                       excerpt |-> << >>, path |-> f.parts,
                       type |-> plugin_type(f.parts) ] ]
    ELSE LET lines == f.content
             opened == strip(lines[1]) = Dashes
             end_idx == frontmatter_end(lines, 1)
             frontmatter ==
                 IF opened
                 THEN parse_frontmatter(SubSeq(lines, 2, end_idx), EmptyDict)
                 ELSE EmptyDict
             body == IF opened THEN SubSeq(lines, end_idx + 2, Len(lines))
                     ELSE lines
         IN [ isNone |-> FALSE, frontmatter |-> frontmatter,
              entry |-> [ name |-> dict_get(frontmatter, NameKey, f.stem),
                          description |-> dict_get(frontmatter, DescriptionKey, << >>),
                          excerpt |-> excerpt_of(body, max_tokens),
                          path |-> f.parts, type |-> plugin_type(f.parts) ] ]

\* _extract_plugin_excerpt(file_path, max_tokens), lines 126-184: the entry,
\* or None when reading the file raises.  frontmatter is the dict the code
\* parses on the way.
extract_plugin_excerpt(f, max_tokens) ==
    IF ~f.readable
    THEN [ isNone |-> TRUE, frontmatter |-> EmptyDict,
           entry |-> [ name |-> << >>, description |-> << >>,
                       excerpt |-> << >>, path |-> << >>, type |-> "" ] ]
    ELSE LET lines == f.content
             opened == strip(lines[1]) = Dashes
             end_idx == frontmatter_end(lines, 1)
             frontmatter ==
                 IF opened
                 THEN parse_frontmatter(SubSeq(lines, 2, end_idx), EmptyDict)
                 ELSE EmptyDict
             body == IF opened THEN SubSeq(lines, end_idx + 2, Len(lines))
                     ELSE lines
         IN [ isNone |-> FALSE, frontmatter |-> frontmatter,
              entry |-> [ name |-> dict_get(frontmatter, NameKey, f.stem),
                          description |-> dict_get(frontmatter, DescriptionKey, << >>),
                          excerpt |-> excerpt_of(body, max_tokens),
                          path |-> f.parts, type |-> plugin_type(f.parts) ] ]

RECURSIVE build_from(_, _)
build_from(i, files) ==
    IF i > Len(AllPluginFiles) THEN << >>
    ELSE LET f == AllPluginFiles[i]
             e == extract_plugin_excerpt(f, DEFAULT_EXCERPT_TOKENS)
         IN (IF i \in files /\ f.name \notin Denylist /\ ~e.isNone
             THEN << e.entry >> ELSE << >>) \o build_from(i + 1, files)

\* _build_plugin_catalog(), lines 186-206.  files is the set of indices of
\* AllPluginFiles present on disk.
build_plugin_catalog(files) == build_from(1, files)

\* file_path lies below the directory dir_path
is_under(dir_path, parts) ==
    Len(parts) > Len(dir_path) /\ SubSeq(parts, 1, Len(dir_path)) = dir_path

RECURSIVE build_in_directories(_, _, _)
\* The outer loop of _build_plugin_catalog, lines 190-203, over the configured
\* directories: a directory that does not exist is skipped, and the *.md files
\* below an existing one are visited as build_from visits them.
build_in_directories(directories, existing, files) ==
    IF directories = << >> THEN << >>
    ELSE LET dir_path == Head(directories)
             below == { i \in files : is_under(dir_path, AllPluginFiles[i].parts) }
         IN (IF dir_path \notin existing THEN << >> ELSE build_from(1, below))
                \o build_in_directories(Tail(directories), existing, files)

\* _get_or_build_catalog had line 211 compared with <= instead of <.
get_or_build_catalog_le(c, snapshot, t, files) ==
    IF snapshot.exists /\ t - snapshot.mtime <= c.catalog.rebuild_interval_seconds
    THEN [ ret |-> snapshot.content, file |-> snapshot,
           walked |-> FALSE, wrote |-> FALSE ]
    ELSE LET catalog == build_plugin_catalog(files) IN
         [ ret |-> catalog,
           file |-> [ exists |-> TRUE, mtime |-> t, content |-> catalog ],
           walked |-> TRUE, wrote |-> TRUE ]

\* _get_or_build_catalog(), lines 208-220.
get_or_build_catalog(c, snapshot, t, files) ==
    IF snapshot.exists /\ t - snapshot.mtime < c.catalog.rebuild_interval_seconds
    THEN [ ret |-> snapshot.content, file |-> snapshot,
           walked |-> FALSE, wrote |-> FALSE ]
    ELSE LET catalog == build_plugin_catalog(files) IN
         [ ret |-> catalog,
           file |-> [ exists |-> TRUE, mtime |-> t, content |-> catalog ],
           walked |-> TRUE, wrote |-> TRUE ]

\* The snapshot file as the bytes on disk, in units of one token: the opening
\* bracket, one token per catalog entry, the closing bracket.  A hole is what a
\* write beyond the end of the file leaves before it.
OpenBracket == [ tok |-> "[", entry |-> << >> ]
CloseBracket == [ tok |-> "]", entry |-> << >> ]
Hole == [ tok |-> "NUL", entry |-> << >> ]

\* json.dump(catalog, f, indent=2), line 218: the text written.
json_dump(catalog) ==
    << OpenBracket >>
        \o [ i \in 1..Len(catalog) |-> [ tok |-> "entry", entry |-> << catalog[i] >> ] ]
        \o << CloseBracket >>

\* json.load(f), line 213: the list the text encodes, or JSONDecodeError when
\* the text is not one complete JSON value.
json_load(text) ==
    IF /\ Len(text) >= 2
       /\ text[1] = OpenBracket
       /\ text[Len(text)] = CloseBracket
       /\ \A i \in 2..(Len(text) - 1) : text[i].tok = "entry"
    THEN [ exc |-> "none",
           ret |-> [ i \in 1..(Len(text) - 2) |-> text[i + 1].entry[1] ] ]
    ELSE [ exc |-> "JSONDecodeError", ret |-> << >> ]

\* write(2) of data at offset off of a file opened without O_APPEND: the bytes
\* replace what is there, the rest of the file stays, and a gap before off is
\* filled with a hole.
write_at(content, off, data) ==
    LET len == IF off + Len(data) > Len(content) THEN off + Len(data)
               ELSE Len(content)
    IN [ i \in 1..len |->
            IF i > off /\ i <= off + Len(data) THEN data[i - off]
            ELSE IF i <= Len(content) THEN content[i]
            ELSE Hole ]

----------------------------------------------------------------------------
(* History extractor *)

\* seq[-n:] as Python slices it: the last n elements for n > 0, the whole
\* sequence for n = 0 (-0 is 0), and all but the first -n for n < 0.
py_tail(seq, n) ==
    IF n > 0
    THEN SubSeq(seq, (IF Len(seq) > n THEN Len(seq) - n + 1 ELSE 1), Len(seq))
    ELSE IF n = 0 THEN seq
    ELSE SubSeq(seq, (IF 0 - n < Len(seq) THEN 1 - n ELSE Len(seq) + 1), Len(seq))

Ellipsis == << ".", ".", "." >>

\* The lines a history log may hold.
\*   malformed  not JSON: json.loads raises JSONDecodeError, the line is skipped
\*   nonobject  JSON that is not an object: entry.get raises AttributeError,
\*              which the except clause (JSONDecodeError, KeyError) lets through
\*   message    an object with a timestamp and a display text
HistoryLines ==
    { [ kind |-> "malformed", timestamp |-> 0, display |-> << >> ],
      [ kind |-> "nonobject", timestamp |-> 0, display |-> << >> ],
      [ kind |-> "message", timestamp |-> 1, display |-> << "h", "i" >> ] }

RECURSIVE decode_lines(_, _)
\* The loop body of lines 228-239 and 249-260 over lines, with the
\* per-message budget max_chars.
decode_lines(lines, max_chars) ==
    IF lines = << >> THEN [ exc |-> "none", ret |-> << >> ]
    ELSE LET l == Head(lines)
             rest == decode_lines(Tail(lines), max_chars)
             msg_text == IF Len(l.display) > max_chars
                         THEN py_prefix(l.display, max_chars) \o Ellipsis
                         ELSE l.display
         IN IF l.kind = "nonobject"
            THEN [ exc |-> "AttributeError", ret |-> << >> ]
            ELSE IF rest.exc # "none" THEN rest
            ELSE IF l.kind = "malformed" THEN rest
            ELSE [ exc |-> "none",
                   ret |-> << [ timestamp |-> l.timestamp, content |-> msg_text ] >>
                           \o rest.ret ]

\* _extract_full_history(history_path, max_messages), lines 222-241.
\* log = [exists, lines]
extract_full_history(log_file, max_messages) ==
    IF ~log_file.exists THEN [ exc |-> "none", ret |-> << >> ]
    ELSE decode_lines(py_tail(log_file.lines, max_messages), 1000 * 4)

\* _extract_chat_history had line 254 compared and cut at max_tokens instead
\* of max_tokens * 4.
extract_chat_history_tokens(c, log_file, window_size) ==
    IF ~log_file.exists THEN [ exc |-> "none", ret |-> << >> ]
    ELSE decode_lines(py_tail(log_file.lines, window_size),
                      c.history.max_tokens_per_message)

\* _extract_chat_history(history_path, window_size), lines 243-262.
extract_chat_history(c, log_file, window_size) ==
    IF ~log_file.exists THEN [ exc |-> "none", ret |-> << >> ]
    ELSE decode_lines(py_tail(log_file.lines, window_size),
                      c.history.max_tokens_per_message * 4)

----------------------------------------------------------------------------
(* Cache manager *)

\* hashlib.sha256(content.encode()).hexdigest(), taken as injective: the
\* digest stands for the text it was computed from and for no other.
sha256(content) == [ sha256 |-> content ]

\* _get_cache_key(user_message, history), lines 264-268.
get_cache_key(user_message, history) ==
    LET tail == py_tail(history, 3)
        history_summary ==
            py_join([ i \in 1..Len(tail) |-> py_prefix(tail[i].content, 100) ])
        content == user_message \o << "\n" >> \o history_summary
    IN sha256(content)

Keys == { "k1", "k2" }
Selections == { << >>, << "a" >>, << "a", "b" >> }

NoEntry == [ exists |-> FALSE, mtime |-> 0, plugins |-> << >> ]

\* getattr on a pydantic model: only declared fields are attributes.
HasAttr(section, field) == field \in DOMAIN section

\* _get_cached_decision without the test of cache.enabled at lines 271-272.
get_cached_decision_unguarded(c, entries, t, cache_key) ==
    IF ~entries[cache_key].exists
    THEN [ exc |-> "none", isNone |-> TRUE, ret |-> << >>, entries |-> entries ]
    ELSE IF ~HasAttr(c.cache, "ttl_seconds")
    THEN [ exc |-> "AttributeError", isNone |-> TRUE, ret |-> << >>,
           entries |-> entries ]
    ELSE IF t - entries[cache_key].mtime > c.cache.ttl_seconds
    THEN [ exc |-> "none", isNone |-> TRUE, ret |-> << >>,
           entries |-> [entries EXCEPT ![cache_key] = NoEntry] ]
    ELSE [ exc |-> "none", isNone |-> FALSE, ret |-> entries[cache_key].plugins,
           entries |-> entries ]

\* _get_cached_decision(cache_key), lines 270-284.  entries is the decisions
\* directory; the result carries the directory as the call leaves it.
get_cached_decision(c, entries, t, cache_key) ==
    IF ~c.cache.enabled
    THEN [ exc |-> "none", isNone |-> TRUE, ret |-> << >>, entries |-> entries ]
    ELSE IF ~entries[cache_key].exists
    THEN [ exc |-> "none", isNone |-> TRUE, ret |-> << >>, entries |-> entries ]
    ELSE IF ~HasAttr(c.cache, "ttl_seconds")
    THEN [ exc |-> "AttributeError", isNone |-> TRUE, ret |-> << >>,
           entries |-> entries ]
    ELSE IF t - entries[cache_key].mtime > c.cache.ttl_seconds
    THEN [ exc |-> "none", isNone |-> TRUE, ret |-> << >>,
           entries |-> [entries EXCEPT ![cache_key] = NoEntry] ]
    ELSE [ exc |-> "none", isNone |-> FALSE, ret |-> entries[cache_key].plugins,
           entries |-> entries ]

\* _save_cached_decision(cache_key, plugins), lines 286-294.
save_cached_decision(c, entries, t, cache_key, plugins) ==
    IF ~c.cache.enabled THEN entries
    ELSE [entries EXCEPT
            ![cache_key] = [ exists |-> TRUE, mtime |-> t, plugins |-> plugins ]]

----------------------------------------------------------------------------
(* Decision engine *)

OpenTags == { "<ctx>", "<CTX>" }      \* <ctx>, matched ignoring case
CloseTags == { "</ctx>", "</CTX>" }   \* </ctx>, matched ignoring case
RespTokens == { "<ctx>", "<CTX>", "</ctx>", " ", "P" }

\* What the completion endpoint does.
\*   error      create() raises: timeout, network error, HTTP error
\*   malformed  the body does not decode to a completion with a choice
\*   none       the choice's message content is None
\*   text       the content is the string .content
EndpointOutcomes ==
    { [ kind |-> k, content |-> << >> ] : k \in { "error", "malformed", "none" } }
    \cup { [ kind |-> "text", content |-> q ] : q \in SeqsUpTo(RespTokens, MaxRespLen) }

\* re.search(r"<ctx>(.*?)</ctx>", content, DOTALL | IGNORECASE), line 392:
\* the leftmost opening tag that some closing tag follows, up to the nearest
\* such closing tag.
ctx_search(content) ==
    LET starts == { i \in 1..Len(content) :
                       /\ content[i] \in OpenTags
                       /\ \E j \in (i + 1)..Len(content) : content[j] \in CloseTags }
    IN IF starts = { } THEN [ found |-> FALSE, group1 |-> << >> ]
       ELSE LET i == CHOOSE a \in starts : \A b \in starts : a <= b
                ends == { j \in (i + 1)..Len(content) : content[j] \in CloseTags }
                j == CHOOSE a \in ends : \A b \in ends : a <= b
            IN [ found |-> TRUE, group1 |-> SubSeq(content, i + 1, j - 1) ]

\* The try block had it fallen back to the whole response when the response
\* carries no <ctx> tags.
parse_response_fallback(endpoint) ==
    IF endpoint.kind \in { "error", "malformed", "none" }
    THEN [ exc |-> "none", isNone |-> TRUE, text |-> << >>,
           logged |-> { "Querying Cerebras" } ]
    ELSE LET content == strip(endpoint.content)
             ctx_match == ctx_search(content)
         IN [ exc |-> "none", isNone |-> FALSE,
              text |-> IF ctx_match.found THEN strip(ctx_match.group1) ELSE content,
              logged |-> { "Querying Cerebras", "Cerebras response" } ]

\* The try block of _select_plugins_with_cerebras, lines 365-402, on the
\* endpoint's outcome.
parse_response(endpoint) ==
    IF endpoint.kind \in { "error", "malformed" }
    THEN [ exc |-> "none", isNone |-> TRUE, text |-> << >>,
           logged |-> { "Querying Cerebras", "Error querying Cerebras" } ]
    ELSE IF endpoint.kind = "none"
    THEN [ exc |-> "none", isNone |-> TRUE, text |-> << >>,
           logged |-> { "Querying Cerebras", "Cerebras returned None" } ]
    ELSE LET content == strip(endpoint.content)
             ctx_match == ctx_search(content)
         IN IF ctx_match.found
            THEN [ exc |-> "none", isNone |-> FALSE, text |-> strip(ctx_match.group1),
                   logged |-> { "Querying Cerebras", "Cerebras response",
                                "Extracted context" } ]
            ELSE [ exc |-> "none", isNone |-> TRUE, text |-> << >>,
                   logged |-> { "Querying Cerebras", "Cerebras response",
                                "No <ctx> tags found" } ]

\* _select_plugins_with_cerebras(user_message, history, full_history, catalog),
\* lines 296-402.  The prompt is built from the catalog (at most 100 entries)
\* and the two histories (the last 3 and the last 30 messages) before the try
\* block; every entry and message carries the fields the formatting reads.
select_plugins_with_cerebras(user_message, history, full_history, catalog, endpoint) ==
    LET catalog_text == py_prefix(catalog, 100)
        history_tail == py_tail(history, 3)
        pattern_tail == py_tail(full_history, 30)
        prompt == [ user_message |-> user_message, catalog |-> catalog_text,
                    history |-> history_tail, patterns |-> pattern_tail ]
        result(r) == [ exc |-> r.exc, isNone |-> r.isNone, text |-> r.text,
                       logged |-> r.logged, prompt |-> prompt, api_calls |-> 1 ]
    IN result(parse_response(endpoint))

ContextBlock(text) == [ kind |-> "context", payload |-> text ]

\* run(user_message), lines 404-421, on the injector's files.
run(c, user_message, log_file, snapshot, files, t, endpoint) ==
    LET select(history, full_history, built) ==
            select_plugins_with_cerebras(user_message, history.ret,
                full_history.ret, built.ret, endpoint)
        logged(built, sel, last) ==
            { "Processing message", "Analyzing", last } \cup sel.logged
                \cup (IF built.walked THEN { "Building plugin catalog" } ELSE { })
        respond(built, sel) ==
            IF sel.isNone \/ sel.text = << >>
            THEN [ exc |-> "none", ret |-> << >>, file |-> built.file,
                   logged |-> logged(built, sel, "No context generated"),
                   api_calls |-> sel.api_calls ]
            ELSE [ exc |-> "none", ret |-> << ContextBlock(sel.text) >>,
                   file |-> built.file,
                   logged |-> logged(built, sel, "Injecting context"),
                   api_calls |-> sel.api_calls ]
        body(history, full_history, built) ==
            IF history.exc # "none"
            THEN [ exc |-> history.exc, ret |-> << >>, file |-> snapshot,
                   logged |-> { "Processing message" }, api_calls |-> 0 ]
            ELSE respond(built, select(history, full_history, built))
    IN body(extract_chat_history(c, log_file, c.history.window_size),
            extract_full_history(log_file, c.history.pattern_analysis_window),
            get_or_build_catalog(c, snapshot, t, files))

\* ContextInjector.__init__(config_path), lines 104-117.  Line 109 reads
\* self.config, which is assigned on line 114 only.
ContextInjector_init(api_key_set) ==
    IF ~api_key_set THEN [ exc |-> "ValueError" ]
    ELSE [ exc |-> "AttributeError" ]

----------------------------------------------------------------------------
(* Hook dispatcher *)

HookNames == { "UserPromptSubmit", "PostToolUse", "SessionStart" }

\* Values of the CLAUDE_CODE_HOOK_TYPE environment variable.
EnvValues == HookNames \cup { Absent, "Stop" }

\* What stdin holds.
\*   raw     text that is not JSON; text is the whole input
\*   object  a JSON object, with or without hook_event_name and prompt
\*   list, number   valid JSON that is not an object
Hello == << "h", "e", "l", "l", "o" >>

StdinPayloads ==
    { [ kind |-> "raw", text |-> x, hook_event_name |-> Absent,
        has_prompt |-> FALSE, prompt |-> << >> ] : x \in { << >>, Hello } }
    \cup { [ kind |-> "object", text |-> << >>, hook_event_name |-> h,
             has_prompt |-> q.has, prompt |-> q.prompt ] :
             h \in HookNames \cup { Absent, "Stop" },
             q \in { [ has |-> FALSE, prompt |-> << >> ],
                     [ has |-> TRUE, prompt |-> << >> ],
                     [ has |-> TRUE, prompt |-> Hello ] } }
    \cup { [ kind |-> k, text |-> << >>, hook_event_name |-> Absent,
             has_prompt |-> FALSE, prompt |-> << >> ] :
             k \in { "list", "number" } }

Metadata == [ kind |-> "metadata", payload |-> << >> ]
Newline == [ kind |-> "newline", payload |-> << >> ]
PostToolUseJson == [ kind |-> "PostToolUse-json", payload |-> << >> ]

\* The classification of main, lines 548-558.
resolve_hook_type(env, user_input) ==
    LET hook_type == IF env = Absent THEN "UserPromptSubmit" ELSE env IN
    IF user_input.kind = "raw"
    THEN [ exc |-> "none", hook_type |-> hook_type ]      \* JSONDecodeError: pass
    ELSE IF user_input.kind # "object"
    THEN [ exc |-> "AttributeError", hook_type |-> hook_type ]   \* data.get
    ELSE IF user_input.hook_event_name \in { "PostToolUse", "SessionStart" }
    THEN [ exc |-> "none", hook_type |-> user_input.hook_event_name ]
    ELSE [ exc |-> "none", hook_type |-> hook_type ]

\* The dispatch of main, lines 560-565: the handler run, "none" when the
\* classification raised.
handler_of(env, user_input) ==
    LET ht == resolve_hook_type(env, user_input) IN
    IF ht.exc # "none" THEN "none"
    ELSE IF ht.hook_type = "PostToolUse" THEN "handle_post_tool_use"
    ELSE IF ht.hook_type = "SessionStart" THEN "handle_session_start"
    ELSE "handle_user_prompt_submit"

\* handle_post_tool_use(), lines 532-542.
handle_post_tool_use == [ exc |-> "none", output |-> << PostToolUseJson >> ]

\* The message handle_user_prompt_submit takes from stdin (lines 433-437).
user_message_of(user_input) ==
    IF user_input.kind = "raw" THEN user_input.text
    ELSE IF user_input.has_prompt THEN user_input.prompt ELSE << >>

\* handle_user_prompt_submit(user_input), lines 430-450, on the injector's
\* files; errors are the lines it appends to the error log.
handle_user_prompt_submit(user_input, api_key_set, c, log_file, snapshot, files, t, endpoint) ==
    LET output == << Metadata, Newline >>
        user_message == user_message_of(user_input)
        injector == ContextInjector_init(api_key_set)
        quiet == [ exc |-> "none", output |-> output, errors |-> { },
                   file |-> snapshot, logged |-> { }, api_calls |-> 0 ]
        after(r) ==
            IF r.exc # "none"
            THEN [quiet EXCEPT !.errors = { "Context injection error" },
                               !.logged = r.logged]
            ELSE [ exc |-> "none", output |-> output \o r.ret, errors |-> { },
                   file |-> r.file, logged |-> r.logged, api_calls |-> r.api_calls ]
    IN IF user_input.kind \notin { "raw", "object" }
       THEN [quiet EXCEPT !.exc = "AttributeError", !.output = << >>]  \* hook_data.get
       ELSE IF user_message = << >> THEN quiet
       ELSE IF injector.exc # "none"
       THEN [quiet EXCEPT !.errors = { "Context injection error" }]
       ELSE after(run(c, user_message, log_file, snapshot, files, t, endpoint))

\* main's except clause had it named the decode errors only, as the inner
\* clause on line 557 does.
main_except_narrow(exc) ==
    IF exc \in { "JSONDecodeError", "ValueError" }
    THEN [ exit_code |-> 0, uncaught |-> "none", errors |-> { "Hook error" } ]
    ELSE [ exit_code |-> 1, uncaught |-> exc, errors |-> { } ]

\* The except clause of main, lines 575-580, entered with exception exc.
main_except(exc) ==
    [ exit_code |-> 0, uncaught |-> "none", errors |-> { "Hook error" } ]

\* The end of main's try block, lines 567-573: the trace line when the
\* trace log exists, then exit 0.
main_exit(trace) ==
    [ exit_code |-> 0, uncaught |-> "none", timed |-> trace ]

\* main(), lines 545-580, run on the current files with the given
\* environment, stdin and outcomes of the network and file system.
main(env, user_input, api_key_set, net, endpoint) ==
    LET ht == resolve_hook_type(env, user_input)
        handler == handler_of(env, user_input)
        fs == [ script |-> scriptFile, tmp |-> tmpFile ]
        quiet == [ exc |-> "none", output |-> << >>, marker |-> marker, fs |-> fs,
                   errors |-> { }, trace_lines |-> { }, update_lines |-> { },
                   catalog_file |-> catalogFile, attempted |-> FALSE,
                   updated |-> FALSE, calls |-> << >>, api_calls |-> 0 ]
        of_session_start(ss) ==
            [quiet EXCEPT !.exc = ss.exc, !.output = ss.output,
                          !.marker = ss.marker, !.fs = ss.fs,
                          !.update_lines = ss.logged, !.attempted = ss.attempted,
                          !.updated = ss.updated, !.calls = ss.calls]
        of_user_prompt_submit(ups) ==
            [quiet EXCEPT !.exc = ups.exc, !.output = ups.output,
                          !.errors = ups.errors, !.trace_lines = ups.logged,
                          !.catalog_file = ups.file, !.api_calls = ups.api_calls]
        handled ==
            IF handler = "none" THEN [quiet EXCEPT !.exc = ht.exc]
            ELSE IF handler = "handle_post_tool_use"
            THEN [quiet EXCEPT !.output = handle_post_tool_use.output]
            ELSE IF handler = "handle_session_start"
            THEN of_session_start(handle_session_start(now, marker, fs, net))
            ELSE of_user_prompt_submit(
                    handle_user_prompt_submit(user_input, api_key_set, cfg,
                        historyLog, catalogFile, pluginFiles, now, endpoint))
        finish(h) ==
            LET trace1 == log(cfg, traceLog, h.trace_lines)
                done == IF h.exc = "none" THEN [ errors |-> { } ] @@ main_exit(trace1)
                        ELSE [ timed |-> FALSE ] @@ main_except(h.exc)
                errors == h.errors \cup done.errors
            IN [ hook_type |-> ht.hook_type, handler |-> handler,
                 handler_exc |-> h.exc,
                 stdout |-> IF h.exc # "none" THEN << >> ELSE h.output,
                 exit_code |-> done.exit_code, uncaught |-> done.uncaught,
                 marker |-> h.marker, fs |-> h.fs,
                 errors |-> errors, error_log |-> errorLog \/ errors # { },
                 update_lines |-> h.update_lines,
                 update_log |-> updateLog \/ h.update_lines # { },
                 trace |-> trace1, timed |-> done.timed,
                 catalog_file |-> h.catalog_file,
                 attempted |-> h.attempted, updated |-> h.updated,
                 calls |-> h.calls, api_calls |-> h.api_calls ]
    IN finish(handled)

----------------------------------------------------------------------------
(* Hook installer (setup.py) *)

\* str.lower() on the characters that occur.
lower(s) ==
    [ i \in 1..Len(s) |-> IF s[i] = "Y" THEN "y" ELSE s[i] ]

\* The command of the installed script, str(ctx_file_path), and another one.
ScriptCommand == "ctx.py"
OtherCommand == "other.sh"

\* hook_config, lines 92-99: an entry without matcher holding one command.
hook_config(ctx_file_path) ==
    [ matcher |-> "", has_hooks |-> TRUE,
      hooks |-> << [ type |-> "command", command |-> ctx_file_path ] >> ]

\* The hook names of a settings document: the two of hooks_to_add (line 101)
\* and one the installer does not touch.
hooks_to_add == { "UserPromptSubmit", "PostToolUse" }
SettingsHooks == hooks_to_add \cup { "Stop" }

\* A hook name that is not a key of settings["hooks"].
NoSlot == [ present |-> FALSE, entries |-> << >> ]

\* A settings document is a JSON object: whether it has "$schema", the value
\* of its other keys, and its "hooks" object, hook name -> list of entries.
\* An entry is [matcher, has_hooks, hooks], hooks a list of [type, command].
NewSettings ==
    [ schema |-> TRUE, other |-> "none", has_hooks |-> FALSE,
      hooks |-> [ h \in SettingsHooks |-> NoSlot ] ]

\* settings.json: absent, not JSON, JSON that is not an object, or an object.
NoSettingsFile == [ kind |-> "absent", doc |-> NewSettings ]

\* existing_commands, lines 108-112.
existing_commands(entries) ==
    { entries[i].hooks[k].command :
        << i, k >> \in { x \in (1..Len(entries)) \X (1..2) :
                            /\ entries[x[1]].has_hooks
                            /\ x[2] <= Len(entries[x[1]].hooks)
                            /\ entries[x[1]].hooks[x[2]].type = "command" } }

\* The loop body of lines 103-118 had it appended without looking at
\* existing_commands.
add_hook_always(slot, ctx_file_path) ==
    IF ~slot.present
    THEN [ present |-> TRUE, entries |-> << hook_config(ctx_file_path) >> ]
    ELSE [ slot EXCEPT !.entries = Append(@, hook_config(ctx_file_path)) ]

\* The loop body of lines 103-118 for one hook name.
add_hook(slot, ctx_file_path) ==
    IF ~slot.present
    THEN [ present |-> TRUE, entries |-> << hook_config(ctx_file_path) >> ]
    ELSE IF ctx_file_path \in existing_commands(slot.entries)
    THEN slot
    ELSE [ slot EXCEPT !.entries = Append(@, hook_config(ctx_file_path)) ]

\* setup_claude_hooks(ctx_file_path), lines 56-127, with the answer typed at
\* the prompt, on the settings file as it is.
setup_claude_hooks(ctx_file_path, answer, file) ==
    IF lower(strip(answer)) \notin { << "y" >>, << "y", "e", "s" >> }
    THEN [ exc |-> "none", ret |-> FALSE, file |-> file ]
    ELSE IF file.kind = "invalid"
    THEN [ exc |-> "none", ret |-> FALSE, file |-> file ]
    ELSE IF file.kind = "nonobject"
    THEN [ exc |-> "TypeError", ret |-> FALSE, file |-> file ]
    ELSE LET settings == IF file.kind = "absent" THEN NewSettings ELSE file.doc
             added == [ h \in SettingsHooks |->
                          IF h \in hooks_to_add
                          THEN add_hook(settings.hooks[h], ctx_file_path)
                          ELSE settings.hooks[h] ]
         IN [ exc |-> "none", ret |-> TRUE,
              file |-> [ kind |-> "object",
                         doc |-> [ settings EXCEPT !.has_hooks = TRUE,
                                                   !.hooks = added ] ] ]

----------------------------------------------------------------------------
(* Invocations of the hook *)

NoNet == [ release |-> [ kind |-> "notag", tag |-> << >> ], fail_at |-> "none" ]
NoEndpoint == [ kind |-> "error", content |-> << >> ]

\* The endpoint outcomes an invocation of the hook is run against.
HookEndpoints ==
    { NoEndpoint,
      [ kind |-> "none", content |-> << >> ],
      [ kind |-> "text", content |-> << "P" >> ],
      [ kind |-> "text", content |-> << "<ctx>", "P", "</ctx>" >> ] }

Idle ==
    [ phase |-> "idle", env |-> Absent,
      user_input |-> [ kind |-> "raw", text |-> << >>, hook_event_name |-> Absent,
                       has_prompt |-> FALSE, prompt |-> << >> ],
      api_key_set |-> FALSE, net |-> NoNet, endpoint |-> NoEndpoint, t |-> 0,
      marker_before |-> NoFile, script_before |-> "original", due |-> FALSE,
      hook_type |-> "UserPromptSubmit", handler |-> "none", handler_exc |-> "none",
      stdout |-> << >>, exit_code |-> 0, uncaught |-> "none", attempted |-> FALSE,
      updated |-> FALSE, calls |-> << >>, api_calls |-> 0, errors |-> { },
      update_lines |-> { } ]

\* What a run of main() with outcome m leaves behind: the files it wrote, and
\* its inputs, output and exit status for the host.
MainEffects(m, env, user_input, api_key_set, net, endpoint) ==
    /\ inv' = [ phase |-> "done", env |-> env, user_input |-> user_input,
                api_key_set |-> api_key_set, net |-> net,
                endpoint |-> endpoint, t |-> now,
                marker_before |-> marker, script_before |-> scriptFile,
                due |-> should_check(now, marker),
                hook_type |-> m.hook_type, handler |-> m.handler,
                handler_exc |-> m.handler_exc, stdout |-> m.stdout,
                exit_code |-> m.exit_code, uncaught |-> m.uncaught,
                attempted |-> m.attempted, updated |-> m.updated,
                calls |-> m.calls, api_calls |-> m.api_calls,
                errors |-> m.errors, update_lines |-> m.update_lines ]
    /\ marker' = m.marker
    /\ scriptFile' = m.fs.script
    /\ tmpFile' = m.fs.tmp
    /\ errorLog' = m.error_log
    /\ updateLog' = m.update_log
    /\ traceLog' = m.trace
    /\ catalogFile' = m.catalog_file
    /\ UNCHANGED << now, ticks, cfg, pluginFiles, decisions, historyLog, call,
                    configFile,
                    settingsFile >>

\* One run of the hook process: main() from start to exit.  Outcomes of the
\* network and the file system that the run does not consult are left at
\* their defaults.
Main ==
    /\ inv.phase = "idle"
    /\ \E env \in EnvValues, user_input \in StdinPayloads :
        LET h == handler_of(env, user_input)
            attempts == h = "handle_session_start" /\ should_check(now, marker)
            constructs == /\ h = "handle_user_prompt_submit"
                          /\ user_message_of(user_input) # << >>
        IN \E net \in (IF attempts THEN UpdateOutcomes ELSE { NoNet }),
              endpoint \in (IF constructs THEN HookEndpoints ELSE { NoEndpoint }),
              api_key_set \in (IF constructs THEN BOOLEAN ELSE { FALSE }) :
            MainEffects(main(env, user_input, api_key_set, net, endpoint),
                        env, user_input, api_key_set, net, endpoint)

\* The process has exited and the host has taken its output and status.
Exit ==
    /\ inv.phase = "done"
    /\ inv' = Idle
    /\ UNCHANGED << now, ticks, marker, scriptFile, tmpFile, errorLog, updateLog,
                    traceLog, cfg, pluginFiles, catalogFile, decisions, historyLog,
                    call, configFile,
                    settingsFile >>

\* Time passes between two calls.
Tick ==
    /\ inv.phase = "idle"
    /\ ticks < MaxTicks
    /\ \E d \in TickSteps : now' = now + d
    /\ ticks' = ticks + 1
    /\ UNCHANGED << marker, scriptFile, tmpFile, errorLog, updateLog, traceLog, inv,
                    cfg, pluginFiles, catalogFile, decisions, historyLog, call,
                    configFile,
                    settingsFile >>

NoCall == [ op |-> "none" ]
NoSnapshot == [ exists |-> FALSE, mtime |-> 0, content |-> << >> ]
NoHistory == [ exists |-> FALSE, lines |-> << >> ]

\* The files as installation leaves them: the script, no marker, no logs, no
\* snapshot, no configuration file (so every setting at its default).  The
\* trace log may have been created by hand.
Init ==
    /\ now = 0
    /\ ticks = 0
    /\ marker = NoFile
    /\ scriptFile = "original"
    /\ tmpFile = "absent"
    /\ errorLog = FALSE
    /\ updateLog = FALSE
    /\ traceLog \in BOOLEAN
    /\ inv = Idle
    /\ cfg = DefaultConfig
    /\ pluginFiles = 1..Len(AllPluginFiles)
    /\ catalogFile = NoSnapshot
    /\ decisions = [ k \in Keys |-> NoEntry ]
    /\ historyLog = NoHistory
    /\ call = NoCall
    /\ configFile = NoConfigFile
    /\ settingsFile = NoSettingsFile

Next == Main \/ Exit \/ Tick

Spec == Init /\ [][Next]_vars

----------------------------------------------------------------------------
(* Calls of the injector's methods *)

\* The caller has taken the result of the last call.
Return ==
    /\ call.op # "none"
    /\ call' = NoCall
    /\ UNCHANGED << now, ticks, marker, scriptFile, tmpFile, errorLog, updateLog,
                    traceLog, inv, cfg, pluginFiles, catalogFile, decisions,
                    historyLog, configFile,
                    settingsFile >>

\* lookup: self._get_cached_decision(cache_key)
Lookup ==
    /\ call.op = "none"
    /\ \E k \in Keys :
        LET r == get_cached_decision(cfg, decisions, now, k) IN
        /\ call' = [ op |-> "get_cached_decision", key |-> k, exc |-> r.exc,
                     isNone |-> r.isNone, ret |-> r.ret, before |-> decisions,
                     t |-> now ]
        /\ decisions' = r.entries
    /\ UNCHANGED << now, ticks, marker, scriptFile, tmpFile, errorLog, updateLog,
                    traceLog, inv, cfg, pluginFiles, catalogFile, historyLog,
                    configFile,
                    settingsFile >>

\* store: self._save_cached_decision(cache_key, plugins)
Store ==
    /\ call.op = "none"
    /\ \E k \in Keys, plugins \in Selections :
        /\ call' = [ op |-> "save_cached_decision", key |-> k, plugins |-> plugins,
                     before |-> decisions, t |-> now ]
        /\ decisions' = save_cached_decision(cfg, decisions, now, k, plugins)
    /\ UNCHANGED << now, ticks, marker, scriptFile, tmpFile, errorLog, updateLog,
                    traceLog, inv, cfg, pluginFiles, catalogFile, historyLog,
                    configFile,
                    settingsFile >>

\* self._get_or_build_catalog()
GetOrBuildCatalog ==
    /\ call.op = "none"
    /\ LET r == get_or_build_catalog(cfg, catalogFile, now, pluginFiles) IN
        /\ call' = [ op |-> "get_or_build_catalog", ret |-> r.ret,
                     walked |-> r.walked, wrote |-> r.wrote,
                     before |-> catalogFile, files |-> pluginFiles, t |-> now ]
        /\ catalogFile' = r.file
        /\ traceLog' = IF r.walked
                       THEN log(cfg, traceLog, { "Building plugin catalog" })
                       ELSE traceLog
    /\ UNCHANGED << now, ticks, marker, scriptFile, tmpFile, errorLog, updateLog,
                    inv, cfg, pluginFiles, decisions, historyLog, configFile,
                    settingsFile >>

\* A plugin file is added to or removed from the configured directories.
PluginsChange ==
    /\ call.op = "none"
    /\ \E i \in 1..Len(AllPluginFiles) :
        pluginFiles' = IF i \in pluginFiles THEN pluginFiles \ { i }
                       ELSE pluginFiles \cup { i }
    /\ UNCHANGED << now, ticks, marker, scriptFile, tmpFile, errorLog, updateLog,
                    traceLog, inv, cfg, catalogFile, decisions, historyLog, call,
                    configFile,
                    settingsFile >>

\* The assistant appends a line to the history log.
AppendHistory ==
    /\ call.op = "none"
    /\ Len(historyLog.lines) < MaxHistory
    /\ \E l \in HistoryLines :
        historyLog' = [ exists |-> TRUE, lines |-> Append(historyLog.lines, l) ]
    /\ UNCHANGED << now, ticks, marker, scriptFile, tmpFile, errorLog, updateLog,
                    traceLog, inv, cfg, pluginFiles, catalogFile, decisions, call,
                    configFile,
                    settingsFile >>

\* The window sizes the extractor is called with.
WindowSizes == { 0, 1, 2, 5 }

\* self._extract_chat_history(history_path, window_size)
ExtractChatHistory ==
    /\ call.op = "none"
    /\ \E window_size \in WindowSizes :
        LET r == extract_chat_history(cfg, historyLog, window_size) IN
        call' = [ op |-> "extract_chat_history", window_size |-> window_size,
                  log_file |-> historyLog, exc |-> r.exc, ret |-> r.ret ]
    /\ UNCHANGED << now, ticks, marker, scriptFile, tmpFile, errorLog, updateLog,
                    traceLog, inv, cfg, pluginFiles, catalogFile, decisions,
                    historyLog, configFile,
                    settingsFile >>

\* The messages run() is called with: plain text, and a slash command.
Messages == { Hello, << "/", "d" >> }

\* self._select_plugins_with_cerebras(user_message, history, full_history,
\* catalog) on the histories and the catalog run() would pass it.
SelectPlugins ==
    /\ call.op = "none"
    /\ \E user_message \in Messages, endpoint \in EndpointOutcomes :
        LET history == extract_chat_history(cfg, historyLog, cfg.history.window_size)
            full_history == extract_full_history(historyLog,
                                cfg.history.pattern_analysis_window)
            catalog == build_plugin_catalog(pluginFiles)
            r == select_plugins_with_cerebras(user_message, history.ret,
                     full_history.ret, catalog, endpoint)
        IN /\ history.exc = "none"
           /\ call' = [ op |-> "select_plugins_with_cerebras",
                        endpoint |-> endpoint, exc |-> r.exc, isNone |-> r.isNone,
                        text |-> r.text, logged |-> r.logged ]
           /\ traceLog' = log(cfg, traceLog, r.logged)
    /\ UNCHANGED << now, ticks, marker, scriptFile, tmpFile, errorLog, updateLog,
                    inv, cfg, pluginFiles, catalogFile, decisions, historyLog,
                    configFile,
                    settingsFile >>

\* No call of run() before this one.
NoRun == [ op |-> "none", user_message |-> << >>, history |-> << >>,
           exc |-> "none", api_calls |-> 0 ]

\* What a call of run() leaves in call: its arguments, what it extracted and
\* returned, and the call of run() before it, if any.
RunRecord(r, user_message, history, endpoint, prev) ==
    [ op |-> "run", user_message |-> user_message, history |-> history.ret,
      endpoint |-> endpoint, exc |-> r.exc, ret |-> r.ret, logged |-> r.logged,
      api_calls |-> r.api_calls, files |-> pluginFiles, prev |-> prev ]

\* self.run(user_message)
Run ==
    /\ call.op = "none"
    /\ \E user_message \in Messages, endpoint \in EndpointOutcomes :
        LET r == run(cfg, user_message, historyLog, catalogFile, pluginFiles, now,
                     endpoint)
        IN /\ call' = RunRecord(r, user_message,
                            extract_chat_history(cfg, historyLog,
                                                 cfg.history.window_size),
                            endpoint, NoRun)
           /\ catalogFile' = r.file
           /\ traceLog' = log(cfg, traceLog, r.logged)
    /\ UNCHANGED << now, ticks, marker, scriptFile, tmpFile, errorLog, updateLog,
                    inv, cfg, pluginFiles, decisions, historyLog, configFile,
                    settingsFile >>

\* self.run(user_message) once more, right after a first call with the same
\* message.
RunAgain ==
    /\ call.op = "run"
    /\ call.prev.op = "none"
    /\ \E endpoint \in HookEndpoints :
        LET r == run(cfg, call.user_message, historyLog, catalogFile, pluginFiles,
                     now, endpoint)
        IN /\ call' = RunRecord(r, call.user_message,
                            extract_chat_history(cfg, historyLog,
                                                 cfg.history.window_size),
                            endpoint,
                            [ op |-> "run", user_message |-> call.user_message,
                              history |-> call.history, exc |-> call.exc,
                              api_calls |-> call.api_calls ])
           /\ catalogFile' = r.file
           /\ traceLog' = log(cfg, traceLog, r.logged)
    /\ UNCHANGED << now, ticks, marker, scriptFile, tmpFile, errorLog, updateLog,
                    inv, cfg, pluginFiles, decisions, historyLog, configFile,
                    settingsFile >>

\* An injector over the given settings, before any of its files exists.
InitInjector(configs, trees) ==
    /\ now = 0
    /\ ticks = 0
    /\ marker = NoFile
    /\ scriptFile = "original"
    /\ tmpFile = "absent"
    /\ errorLog = FALSE
    /\ updateLog = FALSE
    /\ traceLog = FALSE
    /\ inv = Idle
    /\ cfg \in configs
    /\ pluginFiles \in trees
    /\ catalogFile = NoSnapshot
    /\ decisions = [ k \in Keys |-> NoEntry ]
    /\ historyLog = NoHistory
    /\ call = NoCall
    /\ configFile = NoConfigFile
    /\ settingsFile = NoSettingsFile

\* An entry file an earlier hook process stored at time 0.
OldEntry == [ exists |-> TRUE, mtime |-> 0, plugins |-> << "a" >> ]

\* An injector whose decisions directory may hold entries of earlier hook
\* processes.
InitCache ==
    /\ now = 0
    /\ ticks = 0
    /\ marker = NoFile
    /\ scriptFile = "original"
    /\ tmpFile = "absent"
    /\ errorLog = FALSE
    /\ updateLog = FALSE
    /\ traceLog = FALSE
    /\ inv = Idle
    /\ cfg \in { Config(e, DEFAULT_REBUILD_INTERVAL, TRUE) : e \in BOOLEAN }
    /\ pluginFiles = 1..Len(AllPluginFiles)
    /\ catalogFile = NoSnapshot
    /\ decisions \in [ Keys -> { NoEntry, OldEntry } ]
    /\ historyLog = NoHistory
    /\ call = NoCall
    /\ configFile = NoConfigFile
    /\ settingsFile = NoSettingsFile

SpecCache ==
    InitCache
        /\ [][Lookup \/ Store \/ Return \/ Tick]_vars

InitCatalog ==
    InitInjector({ Config(FALSE, r, TRUE) : r \in { 1, DEFAULT_REBUILD_INTERVAL } },
                 { { }, 1..Len(AllPluginFiles) })

SpecCatalog ==
    InitCatalog
        /\ [][GetOrBuildCatalog \/ PluginsChange \/ Return \/ Tick]_vars

InitEngine ==
    InitInjector({ Config(e, DEFAULT_REBUILD_INTERVAL, d) : e, d \in BOOLEAN },
                 { { }, 1..Len(AllPluginFiles) })

SpecEngine ==
    InitEngine
        /\ [][SelectPlugins \/ Run \/ RunAgain
                \/ ExtractChatHistory \/ AppendHistory \/ Return]_vars

----------------------------------------------------------------------------
(* The settings loader on a configuration file the user edits *)

\* self.config = Config.from_yaml(self.config_path), line 114.  A call that
\* follows another records what the one before it returned.
FromYaml ==
    /\ call.op \in { "none", "from_yaml" }
    /\ LET r == from_yaml(configFile) IN
        /\ call' = [ op |-> "from_yaml", file |-> configFile, exc |-> r.exc,
                     ret |-> r.ret,
                     again |-> call.op = "from_yaml" /\ call.file = configFile,
                     prev_ret |-> IF call.op = "from_yaml" THEN call.ret ELSE r.ret ]
        /\ cfg' = IF r.exc = "none" THEN r.ret ELSE cfg
    /\ UNCHANGED << now, ticks, marker, scriptFile, tmpFile, errorLog, updateLog,
                    traceLog, inv, pluginFiles, catalogFile, decisions, historyLog,
                    configFile,
                    settingsFile >>

\* The user rewrites, removes or protects the configuration file.
EditConfig ==
    /\ \E f \in ConfigFiles \ { configFile } : configFile' = f
    /\ UNCHANGED << now, ticks, marker, scriptFile, tmpFile, errorLog, updateLog,
                    traceLog, inv, cfg, pluginFiles, catalogFile, decisions,
                    historyLog, call, settingsFile >>

InitConfig ==
    /\ now = 0
    /\ ticks = 0
    /\ marker = NoFile
    /\ scriptFile = "original"
    /\ tmpFile = "absent"
    /\ errorLog = FALSE
    /\ updateLog = FALSE
    /\ traceLog = FALSE
    /\ inv = Idle
    /\ cfg = DefaultConfig
    /\ pluginFiles = 1..Len(AllPluginFiles)
    /\ catalogFile = NoSnapshot
    /\ decisions = [ k \in Keys |-> NoEntry ]
    /\ historyLog = NoHistory
    /\ call = NoCall
    /\ configFile \in ConfigFiles
    /\ settingsFile = NoSettingsFile

SpecConfig ==
    InitConfig
        /\ [][FromYaml \/ EditConfig \/ Return]_vars

----------------------------------------------------------------------------
(* The excerpt extractor on one plugin file *)

LineSamples == { Dashes, NameLine, TextLine, BlankLine }

\* A file of n one-character lines.
LongFile(n) == [ i \in 1..n |-> << "x" >> ]

\* File contents: every file of at most MaxLines sample lines, and two files
\* around the line cap of the excerpt.
Contents ==
    (SeqsUpTo(LineSamples, MaxLines) \ { << >> })
        \cup { LongFile(EXCERPT_MAX_LINES), LongFile(EXCERPT_MAX_LINES + 1) }

\* file_path.parts below the plugin root
Paths ==
    { q \o << "p.md" >> :
        q \in SeqsUpTo({ "commands", "agents", "workflows", "tools", "misc" },
                       MaxSegments) }

PluginFile(parts, readable, content) ==
    [ name |-> "p.md", stem |-> << "p" >>, parts |-> parts, readable |-> readable,
      content |-> content ]

\* The files the extractor is called on: every content at one path, one
\* content at every path, and a file that cannot be read.
ExcerptFiles ==
    { PluginFile(<< "misc", "p.md" >>, TRUE, c) : c \in Contents }
        \cup { PluginFile(pa, TRUE, << TextLine >>) : pa \in Paths }
        \cup { PluginFile(<< "misc", "p.md" >>, FALSE, << TextLine >>) }

\* self._extract_plugin_excerpt(md_file, max_tokens)
ExtractPluginExcerpt ==
    /\ call.op = "input"
    /\ LET r == extract_plugin_excerpt(call.file, call.max_tokens) IN
        /\ call' = [ op |-> "extract_plugin_excerpt", file |-> call.file,
                     max_tokens |-> call.max_tokens, isNone |-> r.isNone,
                     entry |-> r.entry, frontmatter |-> r.frontmatter ]
        /\ traceLog' = IF r.isNone THEN log(cfg, traceLog, { "Error extracting" })
                       ELSE traceLog
    /\ UNCHANGED << now, ticks, marker, scriptFile, tmpFile, errorLog, updateLog,
                    inv, cfg, pluginFiles, catalogFile, decisions, historyLog,
                    configFile,
                    settingsFile >>

InitExcerpt ==
    /\ now = 0
    /\ ticks = 0
    /\ marker = NoFile
    /\ scriptFile = "original"
    /\ tmpFile = "absent"
    /\ errorLog = FALSE
    /\ updateLog = FALSE
    /\ traceLog = FALSE
    /\ inv = Idle
    /\ cfg = DefaultConfig
    /\ pluginFiles = 1..Len(AllPluginFiles)
    /\ catalogFile = NoSnapshot
    /\ decisions = [ k \in Keys |-> NoEntry ]
    /\ historyLog = NoHistory
    /\ call \in { [ op |-> "input", file |-> f, max_tokens |-> m ] :
                     f \in ExcerptFiles,
                     m \in { 0, 1, DEFAULT_EXCERPT_TOKENS } }
    /\ configFile = NoConfigFile
    /\ settingsFile = NoSettingsFile

SpecExcerpt ==
    InitExcerpt
        /\ [][ExtractPluginExcerpt]_vars

----------------------------------------------------------------------------
(* The cache key of one message and history *)

\* A text of n characters a.
LongText(n) == [ i \in 1..n |-> "a" ]

\* The content of a history message: empty, short, and two texts that first
\* differ after their first 100 characters.
KeyContents ==
    { << >>, << "a" >>, LongText(100) \o << "a" >>, LongText(100) \o << "b" >> }

KeyHistories ==
    { [ i \in 1..Len(q) |-> [ timestamp |-> i, content |-> q[i] ] ] :
        q \in SeqsUpTo(KeyContents, MaxKeyHistory) }

\* The current message is one or two lines of text.
KeyInputs ==
    { [ user_message |-> m, history |-> h ] :
        m \in { << "a" >>, << "a", "\n" >>, << "a", "\n", "a" >> },
        h \in KeyHistories }

\* self._get_cache_key(user_message, history)
GetCacheKey ==
    /\ call.op = "input"
    /\ call' = [ op |-> "get_cache_key", user_message |-> call.user_message,
                 history |-> call.history,
                 key |-> get_cache_key(call.user_message, call.history) ]
    /\ UNCHANGED << now, ticks, marker, scriptFile, tmpFile, errorLog, updateLog,
                    traceLog, inv, cfg, pluginFiles, catalogFile, decisions,
                    historyLog, configFile,
                    settingsFile >>

InitKey ==
    /\ now = 0
    /\ ticks = 0
    /\ marker = NoFile
    /\ scriptFile = "original"
    /\ tmpFile = "absent"
    /\ errorLog = FALSE
    /\ updateLog = FALSE
    /\ traceLog = FALSE
    /\ inv = Idle
    /\ cfg = DefaultConfig
    /\ pluginFiles = 1..Len(AllPluginFiles)
    /\ catalogFile = NoSnapshot
    /\ decisions = [ k \in Keys |-> NoEntry ]
    /\ historyLog = NoHistory
    /\ call \in { [ op |-> "input", user_message |-> i.user_message,
                     history |-> i.history ] : i \in KeyInputs }
    /\ configFile = NoConfigFile
    /\ settingsFile = NoSettingsFile

SpecKey ==
    InitKey
        /\ [][GetCacheKey]_vars

----------------------------------------------------------------------------
(* The two history extractors on one history log *)

MaxLogLines == 2

\* A display text of n characters, its prefixes telling their length.
DisplayText(n) == [ i \in 1..n |-> IF i % 2 = 1 THEN "a" ELSE "b" ]

\* The lines of the log: messages whose lengths lie around the budgets 0, 4,
\* 2000 and 4000, and a line that is not JSON.
LogLines ==
    { [ kind |-> "message", timestamp |-> n, display |-> DisplayText(n) ] :
        n \in { 0, 1, 4, 5, 2000, 2001, 4000, 4001 } }
    \cup { [ kind |-> "malformed", timestamp |-> 0, display |-> << >> ] }

\* self._extract_full_history(history_path, max_messages)
ExtractFullHistory ==
    /\ call.op = "none"
    /\ \E max_messages \in WindowSizes :
        LET r == extract_full_history(historyLog, max_messages) IN
        call' = [ op |-> "extract_full_history", window_size |-> max_messages,
                  log_file |-> historyLog, exc |-> r.exc, ret |-> r.ret ]
    /\ UNCHANGED << now, ticks, marker, scriptFile, tmpFile, errorLog, updateLog,
                    traceLog, inv, cfg, pluginFiles, catalogFile, decisions,
                    historyLog, configFile,
                    settingsFile >>

\* An injector with max_tokens_per_message 0, 1 or 500, and a history log that is
\* absent or holds up to MaxLogLines lines.
InitHistory ==
    /\ now = 0
    /\ ticks = 0
    /\ marker = NoFile
    /\ scriptFile = "original"
    /\ tmpFile = "absent"
    /\ errorLog = FALSE
    /\ updateLog = FALSE
    /\ traceLog = FALSE
    /\ inv = Idle
    /\ cfg \in { [ DefaultConfig EXCEPT !.history.max_tokens_per_message = m ] :
                    m \in { 0, 1, 500 } }
    /\ pluginFiles = { }
    /\ catalogFile = NoSnapshot
    /\ decisions = [ k \in Keys |-> NoEntry ]
    /\ historyLog \in
            { NoHistory }
            \cup { [ exists |-> TRUE, lines |-> l ] : l \in SeqsUpTo(LogLines, MaxLogLines) }
    /\ call = NoCall
    /\ configFile = NoConfigFile
    /\ settingsFile = NoSettingsFile

SpecHistory ==
    InitHistory
        /\ [][ExtractChatHistory \/ ExtractFullHistory \/ Return]_vars

----------------------------------------------------------------------------
(* The catalog builder over the configured directories *)

MaxDirs == 2

\* The directories plugins.directories may name.
Roots == { << "plugins" >>, << "plugins", "agents" >>, << "plugins", "tools" >>,
           << "elsewhere" >> }

\* The directories on disk hold the files on disk: a directory with a file
\* below it exists, and so does the parent of an existing directory.
OnDisk(existing, files) ==
    /\ \A d \in Roots :
            (\E i \in files : is_under(d, AllPluginFiles[i].parts)) => d \in existing
    /\ \A d \in existing : \A r \in Roots : is_under(r, d) => r \in existing

\* self._build_plugin_catalog()
BuildPluginCatalog ==
    /\ call.op = "input"
    /\ call' = [ op |-> "build_plugin_catalog", directories |-> call.directories,
                 existing |-> call.existing,
                 ret |-> build_in_directories(call.directories, call.existing,
                                              pluginFiles) ]
    /\ traceLog' = log(cfg, traceLog, { "Building plugin catalog" })
    /\ UNCHANGED << now, ticks, marker, scriptFile, tmpFile, errorLog, updateLog,
                    inv, cfg, pluginFiles, catalogFile, decisions, historyLog,
                    configFile,
                    settingsFile >>

\* An injector configured with up to MaxDirs directories, over a tree holding
\* any of the plugin files.
InitBuild ==
    /\ now = 0
    /\ ticks = 0
    /\ marker = NoFile
    /\ scriptFile = "original"
    /\ tmpFile = "absent"
    /\ errorLog = FALSE
    /\ updateLog = FALSE
    /\ traceLog = FALSE
    /\ inv = Idle
    /\ cfg = DefaultConfig
    /\ pluginFiles \in SUBSET (1..Len(AllPluginFiles))
    /\ catalogFile = NoSnapshot
    /\ decisions = [ k \in Keys |-> NoEntry ]
    /\ historyLog = NoHistory
    /\ call \in { [ op |-> "input", directories |-> d, existing |-> e ] :
                     d \in SeqsUpTo(Roots, MaxDirs),
                     e \in { x \in SUBSET Roots : OnDisk(x, pluginFiles) } }
    /\ configFile = NoConfigFile
    /\ settingsFile = NoSettingsFile

SpecBuild ==
    InitBuild
        /\ [][BuildPluginCatalog]_vars

----------------------------------------------------------------------------
(* Runs of the hook installer on one settings file *)

MaxEntries == 2
MaxRuns == 3

\* The entries a hook may hold before the installer runs: another command
\* under a matcher, the script's command alone, the two in one entry, and an
\* entry without a hooks list.
EntrySamples ==
    { [ matcher |-> "Bash", has_hooks |-> TRUE,
        hooks |-> << [ type |-> "command", command |-> OtherCommand ] >> ],
      hook_config(ScriptCommand),
      [ matcher |-> "Bash", has_hooks |-> TRUE,
        hooks |-> << [ type |-> "command", command |-> OtherCommand ],
                     [ type |-> "command", command |-> ScriptCommand ] >> ],
      [ matcher |-> "Edit", has_hooks |-> FALSE, hooks |-> << >> ] }

\* A hook name absent from "hooks", or holding up to MaxEntries of the
\* samples.
Slots(samples) ==
    { NoSlot }
    \cup { [ present |-> TRUE, entries |-> e ] : e \in SeqsUpTo(samples, MaxEntries) }

\* The settings documents: with or without "$schema", another key and
\* "hooks"; the hook the installer does not touch is absent or holds one
\* entry.
SettingsDocs ==
    { [ schema |-> s, other |-> o, has_hooks |-> FALSE,
        hooks |-> [ h \in SettingsHooks |-> NoSlot ] ] :
        s \in BOOLEAN, o \in { "none", "model" } }
    \cup { [ schema |-> s, other |-> o, has_hooks |-> TRUE,
             hooks |-> [ h \in SettingsHooks |->
                            IF h = "UserPromptSubmit" THEN u
                            ELSE IF h = "PostToolUse" THEN t ELSE x ] ] :
             s \in BOOLEAN, o \in { "none", "model" }, u \in Slots(EntrySamples),
             t \in Slots({ hook_config(ScriptCommand), hook_config(OtherCommand) }),
             x \in { NoSlot, [ present |-> TRUE,
                               entries |-> << hook_config(OtherCommand) >> ] } }

SettingsFiles ==
    { NoSettingsFile, [ kind |-> "invalid", doc |-> NewSettings ],
      [ kind |-> "nonobject", doc |-> NewSettings ] }
    \cup { [ kind |-> "object", doc |-> d ] : d \in SettingsDocs }

\* setup_claude_hooks(ctx_file) is run once more on the settings file, with
\* one of these answers typed at the prompt of line 63.
SetupClaudeHooks ==
    /\ call.op \in { "none", "setup_claude_hooks" }
    /\ (call.op = "setup_claude_hooks") => call.runs < MaxRuns
    /\ \E answer \in { << "y" >>, << " ", "Y", " " >>, << "y", "e", "s" >>,
                        << "n" >>, << >> } :
        LET r == setup_claude_hooks(ScriptCommand, answer, settingsFile)
            first == call.op = "none"
        IN /\ call' = [ op |-> "setup_claude_hooks", answer |-> answer,
                        exc |-> r.exc, ret |-> r.ret,
                        initial |-> IF first THEN settingsFile ELSE call.initial,
                        before |-> settingsFile,
                        runs |-> IF first THEN 1 ELSE call.runs + 1,
                        accepted |-> (IF first THEN 0 ELSE call.accepted)
                                        + (IF r.ret THEN 1 ELSE 0) ]
           /\ settingsFile' = r.file
    /\ UNCHANGED << now, ticks, marker, scriptFile, tmpFile, errorLog, updateLog,
                    traceLog, inv, cfg, pluginFiles, catalogFile, decisions,
                    historyLog, configFile >>

InitSetup ==
    /\ now = 0
    /\ ticks = 0
    /\ marker = NoFile
    /\ scriptFile = "original"
    /\ tmpFile = "absent"
    /\ errorLog = FALSE
    /\ updateLog = FALSE
    /\ traceLog = FALSE
    /\ inv = Idle
    /\ cfg = DefaultConfig
    /\ pluginFiles = { }
    /\ catalogFile = NoSnapshot
    /\ decisions = [ k \in Keys |-> NoEntry ]
    /\ historyLog = NoHistory
    /\ call = NoCall
    /\ configFile = NoConfigFile
    /\ settingsFile \in SettingsFiles

SpecSetup ==
    InitSetup
        /\ [][SetupClaudeHooks]_vars

----------------------------------------------------------------------------
(* Properties *)

Finished == inv.phase = "done"

C2_MetadataAlwaysPrinted ==
    (Finished /\ inv.hook_type \notin { "PostToolUse", "SessionStart" })
        => Len(inv.stdout) >= 1 /\ inv.stdout[1] = Metadata

C3_Payload == strip(ctx_search(strip(inv.endpoint.content)).group1)

\* C3: on the UserPromptSubmit path with a non-empty prompt and the API key
\* set, when the endpoint answers text holding <ctx>P</ctx> with P non-empty
\* after trimming, the output is the metadata block followed by a context
\* block holding P.
C3_ContextInjected ==
    ( /\ Finished
      /\ inv.handler = "handle_user_prompt_submit"
      /\ user_message_of(inv.user_input) # << >>
      /\ inv.api_key_set
      /\ inv.endpoint.kind = "text"
      /\ ctx_search(strip(inv.endpoint.content)).found
      /\ C3_Payload # << >> )
        => inv.stdout = << Metadata, Newline, ContextBlock(C3_Payload) >>

\* No opening tag of the response is followed by a closing tag.
NoDelimiters(content) ==
    ~ \E i, j \in 1..Len(content) :
        i < j /\ content[i] \in OpenTags /\ content[j] \in CloseTags

NoContextOutcome(endpoint) ==
    endpoint.kind # "text" \/ NoDelimiters(endpoint.content)

C5_LookupServesOrEvicts ==
    ( /\ call.op = "get_cached_decision"
      /\ cfg.cache.enabled
      /\ call.before[call.key].exists )
        => /\ call.exc = "none"
           /\ \/ /\ ~call.isNone
                 /\ call.ret = call.before[call.key].plugins
                 /\ decisions = call.before
              \/ /\ call.isNone
                 /\ ~decisions[call.key].exists

C6_Fresh ==
    /\ call.before.exists
    /\ call.t - call.before.mtime < cfg.catalog.rebuild_interval_seconds

\* C6: _get_or_build_catalog returns the snapshot unchanged, without walking
\* the directories or writing, exactly when the snapshot exists and is
\* younger than the rebuild interval; otherwise it rebuilds from the
\* directories, overwrites the snapshot and returns the new catalog.
C6_SnapshotReusedOnlyWhenYoung ==
    call.op = "get_or_build_catalog" =>
        /\ C6_Fresh => /\ call.ret = call.before.content
                       /\ ~call.walked /\ ~call.wrote
                       /\ catalogFile = call.before
        /\ ~C6_Fresh => /\ call.walked /\ call.wrote
                        /\ call.ret = build_plugin_catalog(call.files)
                        /\ catalogFile = [ exists |-> TRUE, mtime |-> call.t,
                                           content |-> call.ret ]
        /\ ( /\ call.before.exists
             /\ call.t - call.before.mtime > cfg.catalog.rebuild_interval_seconds )
             => call.walked

\* A young snapshot was returned although the directories have changed since
\* it was built.
C6_Witness ==
    /\ call.op = "get_or_build_catalog"
    /\ C6_Fresh
    /\ call.t > call.before.mtime
    /\ call.ret # build_plugin_catalog(call.files)
    /\ ~call.walked

\* C7: whenever handle_session_start finds a check due and starts an update
\* attempt, the last-check marker is rewritten with the time of the attempt,
\* whatever the attempt's outcome.
C7_MarkerRewrittenAfterAttempt ==
    (Finished /\ inv.attempted) => marker = inv.t

C8_SameVersion ==
    inv.net.release.kind = "tag" /\ lstrip_v(inv.net.release.tag) = VERSION

\* C8: on a due check the script file is replaced, and an update reported,
\* only if the release tag differs from the running version; when the tag
\* equals the running version nothing is downloaded, the file stays as it was
\* and no update notice is printed.
C8_UpdateOnlyIfTagDiffers ==
    (Finished /\ inv.attempted) =>
        /\ (inv.updated \/ scriptFile # inv.script_before) => ~C8_SameVersion
        /\ C8_SameVersion => /\ Len(inv.calls) = 1
                             /\ scriptFile = inv.script_before
                             /\ inv.stdout = << >>

\* C9: auto_update never raises: on a failure at any step it returns False,
\* leaves the script file as it was and leaves no temporary file, and
\* handle_session_start completes normally.
C9_AutoUpdateNeverRaises ==
    (Finished /\ inv.attempted) =>
        /\ inv.handler_exc = "none"
        /\ ~inv.updated => (scriptFile = inv.script_before /\ tmpFile = "absent")

HandlerFor(name) ==
    IF name = "PostToolUse" THEN "handle_post_tool_use"
    ELSE IF name = "SessionStart" THEN "handle_session_start"
    ELSE "handle_user_prompt_submit"

\* C10: the handler main runs is the one named by CLAUDE_CODE_HOOK_TYPE
\* (UserPromptSubmit when unset), except that a hook_event_name of the stdin
\* JSON naming UserPromptSubmit, PostToolUse or SessionStart decides instead,
\* whatever the environment variable holds.
C10_EventNameOverridesEnv ==
    (Finished /\ inv.user_input.kind \in { "raw", "object" }) =>
        inv.handler =
            IF inv.user_input.hook_event_name \in HookNames
            THEN HandlerFor(inv.user_input.hook_event_name)
            ELSE HandlerFor(IF inv.env = Absent THEN "UserPromptSubmit" ELSE inv.env)

\* The names of the command definitions found among the plugin files: the
\* stems of the files kept under a commands directory.
C11_CommandNames(files) ==
    { AllPluginFiles[i].stem : i \in { j \in files :
        InParts("commands", AllPluginFiles[j].parts) } }

\* C11: a message that begins with / followed by the name of a discovered
\* command is not enhanced: run() makes no call to the completion endpoint
\* for it and returns no context block, so that the output is the metadata
\* alone.
C11_SlashCommandShortCircuits ==
    ( /\ call.op = "run"
      /\ \E name \in C11_CommandNames(call.files) : call.user_message = << "/" >> \o name )
        => call.api_calls = 0 /\ call.ret = << >>

\* C12: from_yaml never raises; on a file that is absent, unreadable, not
\* YAML, empty or rejected by validation it returns the settings object with
\* every default; it leaves the file alone, and a second call on the same file
\* returns what the first returned.
C12_FromYamlTotal ==
    call.op = "from_yaml" =>
        /\ call.exc = "none"
        /\ call.file.kind # "mapping" => (call.ret = DefaultConfig /\ cfg = DefaultConfig)
        /\ call.again => call.ret = call.prev_ret

\* A second call on the same file, one that validation rejects, returned the
\* defaults again.
C12_Witness ==
    /\ call.op = "from_yaml"
    /\ call.file.kind \in { "empty", "badtype" }
    /\ call.again
    /\ call.exc = "none"
    /\ call.ret = DefaultConfig

\* The last n elements of lines, none when n = 0.
C13_LastLines(lines, n) ==
    SubSeq(lines, (IF Len(lines) > n THEN Len(lines) - n + 1 ELSE 1), Len(lines))

\* The messages of the lines that decode to one, in order, each cut to the
\* per-message budget.
C13_Decoded(lines, max_chars) ==
    LET msgs == SelectSeq(lines, LAMBDA l : l.kind = "message") IN
    [ i \in 1..Len(msgs) |->
        [ timestamp |-> msgs[i].timestamp,
          content |-> IF Len(msgs[i].display) > max_chars
                      THEN py_prefix(msgs[i].display, max_chars) \o Ellipsis
                      ELSE msgs[i].display ] ]

\* C13: windowed extraction with window size N >= 0 never raises and returns
\* the messages decoded from the last N lines of the log, in file order,
\* skipping the lines that do not decode to a message: at most N messages,
\* and none when the log does not exist.
C13_WindowedHistory ==
    call.op = "extract_chat_history" =>
        /\ call.exc = "none"
        /\ call.ret = C13_Decoded(C13_LastLines(call.log_file.lines, call.window_size),
                                  cfg.history.max_tokens_per_message * 4)
        /\ Len(call.ret) <= call.window_size
        /\ ~call.log_file.exists => call.ret = << >>

C14_Extracted == call.op = "extract_plugin_excerpt" /\ ~call.isNone

\* The lines of the file that close a front-matter block opened on line 1.
C14_Closings ==
    { j \in 2..Len(call.file.content) : strip(call.file.content[j]) = Dashes }

C14_WellFormed ==
    strip(call.file.content[1]) = Dashes /\ C14_Closings # { }

C14_Close == CHOOSE j \in C14_Closings : \A i \in C14_Closings : j <= i

\* The key/value pairs of the lines of a block, the last line of a key giving
\* its value.
C14_Pairs(block) ==
    LET at == { i \in 1..Len(block) : has_colon(block[i]) } IN
    [ k \in { split_key(block[i]) : i \in at } |->
        LET last == CHOOSE i \in at :
                /\ split_key(block[i]) = k
                /\ \A j \in at : split_key(block[j]) = k => j <= i
        IN split_val(block[last]) ]

\* C14: for a file that starts with a well-formed front-matter block the
\* parsed metadata is the block's key/value pairs and the excerpt is built
\* from the lines after the closing delimiter only; for a file without a
\* well-formed block (no opening ---, or an opening --- never closed) the
\* metadata is empty and the excerpt is built from the whole file.
C14_FrontMatter ==
    C14_Extracted =>
        IF C14_WellFormed
        THEN /\ call.frontmatter =
                    C14_Pairs(SubSeq(call.file.content, 2, C14_Close - 1))
             /\ call.entry.excerpt =
                    excerpt_of(SubSeq(call.file.content, C14_Close + 1,
                                      Len(call.file.content)), call.max_tokens)
        ELSE /\ call.frontmatter = EmptyDict
             /\ call.entry.excerpt = excerpt_of(call.file.content, call.max_tokens)

\* The number of lines of a text.
C15_LineCount(text) ==
    IF text = << >> THEN 0
    ELSE 1 + Cardinality({ i \in 1..Len(text) : text[i] = "\n" })

\* C15: the excerpt has at most max_tokens * 4 characters, newlines
\* included, and at most 50 lines, whatever the file.
C15_ExcerptBounded ==
    C14_Extracted =>
        /\ Len(call.entry.excerpt) <= call.max_tokens * 4
        /\ C15_LineCount(call.entry.excerpt) <= EXCERPT_MAX_LINES

\* A file of more lines than the cap, all within the character budget, was
\* excerpted to exactly the cap.
C15_Witness ==
    /\ C14_Extracted
    /\ Len(call.file.content) > EXCERPT_MAX_LINES
    /\ C15_LineCount(call.entry.excerpt) = EXCERPT_MAX_LINES
    /\ Len(call.entry.excerpt) < call.max_tokens * 4

\* The first of the markers commands, agents, workflows, tools found among
\* the path segments.
C16_FirstMarker(parts) ==
    IF InParts("commands", parts) THEN "command"
    ELSE IF InParts("agents", parts) THEN "agent"
    ELSE IF InParts("workflows", parts) THEN "workflow"
    ELSE IF InParts("tools", parts) THEN "tool"
    ELSE "unknown"

\* C16: the category of an entry is that of the first of the markers
\* commands, agents, workflows, tools, in that order, that is a segment of
\* the file's path, and unknown when none is.
C16_FirstMarkerWins ==
    C14_Extracted => call.entry.type = C16_FirstMarker(call.file.parts)

\* The pair a key is meant to be a function of: the message, and the first
\* 100 characters of each of the last 3 history messages.
C17_Pair(user_message, history) ==
    LET n == Len(history)
        tail == SubSeq(history, (IF n > 3 THEN n - 2 ELSE 1), n)
    IN << user_message,
          [ i \in 1..Len(tail) |->
              SubSeq(tail[i].content, 1,
                     IF Len(tail[i].content) > 100 THEN 100
                     ELSE Len(tail[i].content)) ] >>

\* C17: with an injective hash, the key is a function of exactly the pair
\* (message, first 100 characters of each of the last 3 history messages):
\* equal pairs give equal keys and different pairs give different keys.
C17_KeyInjectiveOnPair ==
    call.op = "get_cache_key" =>
        \A other \in KeyInputs :
            (C17_Pair(other.user_message, other.history)
                = C17_Pair(call.user_message, call.history))
            <=> (get_cache_key(other.user_message, other.history) = call.key)

\* C18: with caching enabled, two successive calls of run() with the same
\* message and the same recent history, the second right after the first,
\* make at most one call to the completion endpoint between them.
C18_SecondRunServedFromCache ==
    ( /\ call.op = "run"
      /\ call.prev.op = "run"
      /\ cfg.cache.enabled
      /\ call.user_message = call.prev.user_message
      /\ call.history = call.prev.history )
        => call.prev.api_calls + call.api_calls <= 1

----------------------------------------------------------------------------
(* Two hook processes in _get_or_build_catalog() on the same snapshot file *)

Procs == { 1, 2 }

\* A hook process about to call _get_or_build_catalog().
NoProc ==
    [ pc |-> "check", catalog |-> << >>, text |-> << >>, off |-> 0,
      did_read |-> FALSE, exc |-> "none", ret |-> << >> ]

\* Lines 209-211: the snapshot exists and is younger than the rebuild interval.
CheckAge ==
    /\ call.op = "race"
    /\ \E p \in Procs :
        /\ call.proc[p].pc = "check"
        /\ call' = [call EXCEPT !.proc[p].pc =
                IF /\ catalogFile.exists
                   /\ now - catalogFile.mtime < cfg.catalog.rebuild_interval_seconds
                THEN "read" ELSE "build"]
    /\ UNCHANGED << now, ticks, marker, scriptFile, tmpFile, errorLog, updateLog,
                    traceLog, inv, cfg, pluginFiles, catalogFile, decisions,
                    historyLog, configFile,
                    settingsFile >>

\* Lines 212-213: open the snapshot and return json.load of what it holds now.
ReadSnapshot ==
    /\ call.op = "race"
    /\ \E p \in Procs :
        /\ call.proc[p].pc = "read"
        /\ LET r == json_load(catalogFile.content) IN
           call' = [call EXCEPT !.proc[p] =
                [ @ EXCEPT !.pc = "done", !.did_read = TRUE, !.exc = r.exc,
                           !.ret = r.ret ]]
    /\ UNCHANGED << now, ticks, marker, scriptFile, tmpFile, errorLog, updateLog,
                    traceLog, inv, cfg, pluginFiles, catalogFile, decisions,
                    historyLog, configFile,
                    settingsFile >>

\* Line 215: walk the plugin directories.
BuildCatalog ==
    /\ call.op = "race"
    /\ \E p \in Procs :
        /\ call.proc[p].pc = "build"
        /\ call' = [call EXCEPT !.proc[p] =
                [ @ EXCEPT !.pc = "open",
                           !.catalog = build_plugin_catalog(pluginFiles) ]]
    /\ UNCHANGED << now, ticks, marker, scriptFile, tmpFile, errorLog, updateLog,
                    traceLog, inv, cfg, pluginFiles, catalogFile, decisions,
                    historyLog, configFile,
                    settingsFile >>

\* Line 217: open(self.catalog_path, "w") creates the file or truncates it to
\* length 0; the process writes from offset 0.
OpenSnapshot ==
    /\ call.op = "race"
    /\ \E p \in Procs :
        /\ call.proc[p].pc = "open"
        /\ call' = [call EXCEPT !.proc[p] =
                [ @ EXCEPT !.pc = "dump", !.off = 0,
                           !.text = json_dump(call.proc[p].catalog) ]]
    /\ catalogFile' = [ exists |-> TRUE, mtime |-> now, content |-> << >> ]
    /\ UNCHANGED << now, ticks, marker, scriptFile, tmpFile, errorLog, updateLog,
                    traceLog, inv, cfg, pluginFiles, decisions, historyLog,
                    configFile,
                    settingsFile >>

\* Line 218 and the close at the end of the with block: the buffered text
\* reaches the file in one write or in several, each at the process's own
\* offset.  The call returns the catalog it built (line 220).
DumpSnapshot ==
    /\ call.op = "race"
    /\ \E p \in Procs :
        /\ call.proc[p].pc = "dump"
        /\ \E n \in 1..(Len(call.proc[p].text) - call.proc[p].off) :
            LET me == call.proc[p]
                data == SubSeq(me.text, me.off + 1, me.off + n)
                closed == me.off + n = Len(me.text)
            IN /\ catalogFile' = [ exists |-> TRUE, mtime |-> now,
                                   content |-> write_at(catalogFile.content,
                                                        me.off, data) ]
               /\ call' = [call EXCEPT
                    !.proc[p] = [ @ EXCEPT !.off = me.off + n,
                                           !.pc = IF closed THEN "done" ELSE "dump",
                                           !.ret = IF closed THEN me.catalog
                                                   ELSE me.ret ],
                    !.last_writer = IF closed THEN p ELSE @]
    /\ UNCHANGED << now, ticks, marker, scriptFile, tmpFile, errorLog, updateLog,
                    traceLog, inv, cfg, pluginFiles, decisions, historyLog,
                    configFile,
                    settingsFile >>

\* The first plugin file is added or removed while the hook processes run.
TreeChange ==
    /\ call.op = "race"
    /\ pluginFiles' = IF 1 \in pluginFiles THEN pluginFiles \ { 1 }
                      ELSE pluginFiles \cup { 1 }
    /\ UNCHANGED << now, ticks, marker, scriptFile, tmpFile, errorLog, updateLog,
                    traceLog, inv, cfg, catalogFile, decisions, historyLog, call,
                    configFile,
                    settingsFile >>

\* Two hook processes start on a snapshot file that is absent or was written
\* whole by an earlier process at time 0; catalogFile.content is the text of
\* the file.
InitRace ==
    /\ now = 0
    /\ ticks = 0
    /\ marker = NoFile
    /\ scriptFile = "original"
    /\ tmpFile = "absent"
    /\ errorLog = FALSE
    /\ updateLog = FALSE
    /\ traceLog = FALSE
    /\ inv = Idle
    /\ cfg \in { Config(FALSE, r, FALSE) : r \in { 1, DEFAULT_REBUILD_INTERVAL } }
    /\ pluginFiles \in { { 2 }, { 1, 2 } }
    /\ catalogFile \in
            { NoSnapshot,
              [ exists |-> TRUE, mtime |-> 0,
                content |-> json_dump(build_plugin_catalog({ 2 })) ] }
    /\ decisions = [ k \in Keys |-> NoEntry ]
    /\ historyLog = NoHistory
    /\ call = [ op |-> "race", proc |-> [ p \in Procs |-> NoProc ],
                last_writer |-> 0 ]
    /\ configFile = NoConfigFile
    /\ settingsFile = NoSettingsFile

SpecRace ==
    InitRace
        /\ [][CheckAge \/ ReadSnapshot \/ BuildCatalog
                \/ OpenSnapshot \/ DumpSnapshot \/ TreeChange \/ Tick]_vars

----------------------------------------------------------------------------

\* C19: when two hook processes interleave in _get_or_build_catalog() on the
\* same snapshot file, every read of the snapshot returns, without raising, a
\* complete catalog that one process built, and once both processes are done
\* the file holds exactly the complete catalog of the process that finished
\* writing last.
C19_Catalogs ==
    { build_plugin_catalog(files) : files \in SUBSET (1..Len(AllPluginFiles)) }

C19_SnapshotNeverTorn ==
    call.op = "race" =>
        /\ \A p \in Procs :
                (call.proc[p].pc = "done" /\ call.proc[p].did_read) =>
                    /\ call.proc[p].exc = "none"
                    /\ call.proc[p].ret \in C19_Catalogs
        /\ ( /\ \A p \in Procs : call.proc[p].pc = "done"
             /\ call.last_writer # 0 ) =>
                catalogFile.content
                    = json_dump(call.proc[call.last_writer].catalog)

\* C20: with caching disabled, a lookup returns a miss without raising and a
\* store does nothing: after either call the decisions directory holds exactly
\* the entry files it held before, whether or not an entry for the key (fresh
\* or old) was there.
C20_DisabledCacheInert ==
    ~cfg.cache.enabled =>
        /\ call.op = "get_cached_decision" =>
                /\ call.isNone
                /\ call.exc = "none"
                /\ decisions = call.before
        /\ call.op = "save_cached_decision" => decisions = call.before

\* A lookup with caching disabled, some time after an entry for the key was
\* stored, misses.
C20_Witness ==
    /\ ~cfg.cache.enabled
    /\ call.op = "get_cached_decision"
    /\ call.before[call.key].exists
    /\ call.t > call.before[call.key].mtime
    /\ call.isNone

C21_RemoteChecks(calls) ==
    Cardinality({ i \in 1..Len(calls) : calls[i] = "REPO_URL" })

\* C21: a run of handle_session_start requests the release endpoint exactly
\* when the last-check marker is absent or at least 86400 s old, and then
\* exactly once; when the marker is younger it requests nothing, leaves the
\* marker, the script, the temporary file and the logs as they were, and
\* returns empty output.
C21_CheckExactlyWhenDue ==
    [][ ( /\ inv.phase = "idle"
          /\ inv'.phase = "done"
          /\ inv'.handler = "handle_session_start" ) =>
            LET due == marker = NoFile \/ now - marker >= AUTO_UPDATE_INTERVAL IN
            /\ inv'.attempted <=> due
            /\ C21_RemoteChecks(inv'.calls) = (IF due THEN 1 ELSE 0)
            /\ ~due => /\ inv'.calls = << >>
                       /\ marker' = marker
                       /\ scriptFile' = scriptFile
                       /\ tmpFile' = tmpFile
                       /\ updateLog' = updateLog
                       /\ errorLog' = errorLog
                       /\ inv'.stdout = << >>
                       /\ inv'.handler_exc = "none" ]_vars

\* A session start one second before the marker comes of age made no check.
C21_Witness ==
    /\ inv.phase = "done"
    /\ inv.handler = "handle_session_start"
    /\ inv.marker_before # NoFile
    /\ inv.t - inv.marker_before = AUTO_UPDATE_INTERVAL - 1
    /\ ~inv.attempted
    /\ inv.calls = << >>

\* The text a message of the log is returned with under a budget of
\* characters.
C22_Capped(display, budget) ==
    IF Len(display) <= budget THEN display
    ELSE SubSeq(display, 1, budget) \o << ".", ".", "." >>

\* The returned messages are the last messages of the log, each with its
\* text capped to the budget.
C22_LastCapped(ret, lines, budget) ==
    LET msgs == SelectSeq(lines, LAMBDA l : l.kind = "message")
        skipped == Len(msgs) - Len(ret)
    IN /\ skipped >= 0
       /\ \A i \in 1..Len(ret) :
            ret[i].content = C22_Capped(msgs[skipped + i].display, budget)

\* C22: every message either history extractor returns has as content the
\* original text when that is no longer than the budget, and otherwise its
\* first budget characters followed by "..."; the budget is
\* 4 * max_tokens_per_message in windowed mode and 4000 characters, whatever
\* the configuration, in pattern-analysis mode.
C22_ContentCapped ==
    /\ call.op = "extract_chat_history" =>
            C22_LastCapped(call.ret, call.log_file.lines,
                           4 * cfg.history.max_tokens_per_message)
    /\ call.op = "extract_full_history" =>
            C22_LastCapped(call.ret, call.log_file.lines, 4000)

\* Windowed extraction under a budget of 4 characters returned a message of
\* 5 characters cut to 4 and marked, next to one of 4 characters left whole.
C22_Witness ==
    /\ call.op = "extract_chat_history"
    /\ cfg.history.max_tokens_per_message = 1
    /\ Len(call.ret) = 2
    /\ call.ret[1].content = << "a", "b", "a", "b", ".", ".", "." >>
    /\ call.ret[2].content = << "a", "b", "a", "b" >>
    /\ call.log_file.lines[1].display # call.log_file.lines[2].display

\* The entries of the catalog that stand for file i.
C23_Entries(i) ==
    { k \in 1..Len(call.ret) : call.ret[k].path = AllPluginFiles[i].parts }

\* File i is on disk, not denylisted, and can be read.
C23_Contributes(i) ==
    /\ i \in pluginFiles
    /\ AllPluginFiles[i].name \notin { "README.md", "CHANGELOG.md", "LICENSE.md" }
    /\ AllPluginFiles[i].readable

\* The positions of the configured list naming an existing directory that
\* file i lies below.
C23_Visits(i) ==
    { j \in 1..Len(call.directories) :
        /\ call.directories[j] \in call.existing
        /\ is_under(call.directories[j], AllPluginFiles[i].parts) }

\* C23 as stated: the build returns a catalog in which a file that cannot be
\* read or is denylisted has no entry, and every other file below an existing
\* configured directory has exactly one entry, those visited after the
\* failing file included.
C23_OneEntryPerFile ==
    call.op = "build_plugin_catalog" =>
        \A i \in 1..Len(AllPluginFiles) :
            Cardinality(C23_Entries(i))
                = (IF C23_Contributes(i) /\ C23_Visits(i) # { } THEN 1 ELSE 0)

\* C23, amended: the build returns a catalog in which a file that cannot be
\* read or is denylisted has no entry, and every other file, those visited
\* after the failing file included, has one entry for each
\* existing directory of the configured list that it lies below (so exactly
\* one when the configured directories do not overlap); directories that do
\* not exist contribute nothing.
C23_OneEntryPerVisit ==
    call.op = "build_plugin_catalog" =>
        /\ Len(call.ret) = Cardinality({ << i, j >> \in (1..Len(AllPluginFiles))
                                            \X (1..Len(call.directories)) :
                                            C23_Contributes(i) /\ j \in C23_Visits(i) })
        /\ \A i \in 1..Len(AllPluginFiles) :
            Cardinality(C23_Entries(i))
                = (IF C23_Contributes(i) THEN Cardinality(C23_Visits(i)) ELSE 0)

\* A build over a directory that does not exist and an existing one holding
\* a readable file, then an unreadable one, then another readable one, lists
\* the two readable files and not the other.
C23_Witness ==
    /\ call.op = "build_plugin_catalog"
    /\ call.directories = << << "elsewhere" >>, << "plugins" >> >>
    /\ << "elsewhere" >> \notin call.existing
    /\ { 1, 3, 5 } \subseteq pluginFiles
    /\ ~AllPluginFiles[3].readable
    /\ C23_Entries(3) = { }
    /\ Cardinality(C23_Entries(1)) = 1
    /\ Cardinality(C23_Entries(5)) = 1

\* The number of command entries of the script among the entries of a hook.
C24_Count(slot) ==
    Cardinality({ x \in (1..Len(slot.entries)) \X (1..2) :
                    /\ slot.entries[x[1]].has_hooks
                    /\ x[2] <= Len(slot.entries[x[1]].hooks)
                    /\ slot.entries[x[1]].hooks[x[2]]
                            = [ type |-> "command", command |-> ScriptCommand ] })

\* The entries of slot a are the first entries of slot b.
C24_Kept(a, b) ==
    /\ a.present => b.present
    /\ Len(a.entries) <= Len(b.entries)
    /\ SubSeq(b.entries, 1, Len(a.entries)) = a.entries

\* C24: after one or more accepted runs of setup_claude_hooks with the same
\* script path on a settings file that was absent or a JSON object,
\* UserPromptSubmit and PostToolUse each hold the script's command entry
\* exactly once if they held it at most once before, every hook entry and
\* every other key that was there is still there, and an accepted run after
\* an accepted run leaves the settings document as it found it.
C24_InstallIdempotent ==
    ( /\ call.op = "setup_claude_hooks"
      /\ call.accepted >= 1
      /\ call.initial.kind \in { "absent", "object" } ) =>
        LET old == call.initial.doc
            new == settingsFile.doc
        IN /\ settingsFile.kind = "object"
           /\ \A h \in hooks_to_add :
                C24_Count(old.hooks[h]) <= 1 => C24_Count(new.hooks[h]) = 1
           /\ call.initial.kind = "object" =>
                /\ \A h \in SettingsHooks : C24_Kept(old.hooks[h], new.hooks[h])
                /\ new.hooks["Stop"] = old.hooks["Stop"]
                /\ new.other = old.other
                /\ new.schema = old.schema
           /\ (call.accepted >= 2 /\ call.ret) => settingsFile = call.before

\* A second accepted run on a document that held another command under
\* UserPromptSubmit and no PostToolUse hook left the document of the first.
C24_Witness ==
    /\ call.op = "setup_claude_hooks"
    /\ call.accepted = 2
    /\ call.ret
    /\ call.initial.kind = "object"
    /\ call.initial.doc.hooks["UserPromptSubmit"].present
    /\ C24_Count(call.initial.doc.hooks["UserPromptSubmit"]) = 0
    /\ Len(call.initial.doc.hooks["UserPromptSubmit"].entries) = 1
    /\ ~call.initial.doc.hooks["PostToolUse"].present
    /\ settingsFile = call.before
    /\ Len(settingsFile.doc.hooks["UserPromptSubmit"].entries) = 2
    /\ Len(settingsFile.doc.hooks["PostToolUse"].entries) = 1

====
